---- MODULE Spec2Model ----
(***************************************************************************)
(* A model of the Binance wallet balance server (src/server.js): the       *)
(* request signer (generateSignature, createSignedParams, sign), the       *)
(* valuation calculator (calculateTotalBalance), the response body of GET   *)
(* /api/wallet/balance, and the handlers of the health, balance, orders    *)
(* and fees endpoints with their outbound calls to the exchange.           *)
(*                                                                         *)
(* JavaScript strings that the code parses or serialises are sequences of  *)
(* one-character strings (<<"0", ".", "5">> is the string "0.5"), so that  *)
(* parseFloat, URLSearchParams.toString and toFixed are computed.  Asset   *)
(* tickers, object keys and symbols, which the code only compares and      *)
(* concatenates, are TLA+ strings.                                         *)
(*                                                                         *)
(* JavaScript numbers are exact decimals [k, m, e] standing for m * 10^-e  *)
(* (k = "fin", e of either sign), NaN (k = "nan") or +-Infinity            *)
(* (k = "inf", m the sign): the arithmetic is exact where IEEE doubles     *)
(* round in the low-order bits.                                            *)
(***************************************************************************)
EXTENDS Integers, Sequences, FiniteSets, TLC

VARIABLES
  SECRET_KEY,    \* process.env.BINANCE_SECRET_KEY, read at module load
  API_KEY,       \* process.env.BINANCE_API_KEY, read at module load
  clock,         \* what Date.now() returns
  signCall,      \* the last call of a signer: its input and its outcome
  prevSignCall,  \* the call of a signer before the last one
  exchangeAccount, \* the body of the exchange's /api/v3/account response
  exchangePrices,  \* the price table getCurrentPrices built: symbol -> string
  totalRet,      \* what calculateTotalBalance returned on the exchange's data
  balanceData,   \* the body GET /api/wallet/balance answered with
  requests,      \* the HTTP requests: each one's handler, calls and response
  page,          \* the dashboard in a browser: its globals, elements and fetches
  client         \* the React client: its state, its timer and its pending calls

vars == <<SECRET_KEY, API_KEY, clock, signCall, prevSignCall,
          exchangeAccount, exchangePrices, totalRet, balanceData, requests,
          page, client>>

(***************************************************************************)
(* Bounds of the model.                                                    *)
(***************************************************************************)
MaxBalances == 2
MaxClock == 1
MaxParams == 2
MaxRequests == 2
MaxFetches == 2
MaxPending == 2
MaxAutoFetches == 3

(***************************************************************************)
(* JavaScript numbers.                                                     *)
(***************************************************************************)
NaN == [k |-> "nan", m |-> 0, e |-> 0]

PosInfinity == [k |-> "inf", m |-> 1, e |-> 0]

NegInfinity == [k |-> "inf", m |-> -1, e |-> 0]

RECURSIVE Pow10(_)
Pow10(n) == IF n = 0 THEN 1 ELSE 10 * Pow10(n - 1)

\* The finite number m * 10^-e in its canonical form: the mantissa ends in no
\* zero digit, and zero is 0 * 10^0.
RECURSIVE Normalize(_, _)
Normalize(m, e) ==
  IF m = 0 THEN [k |-> "fin", m |-> 0, e |-> 0]
  ELSE IF m % 10 = 0 THEN Normalize(m \div 10, e - 1)
  ELSE [k |-> "fin", m |-> m, e |-> e]

Zero == Normalize(0, 0)

Hundred == Normalize(100, 0)

MaxOf(a, b) == IF a >= b THEN a ELSE b

\* The mantissa of the finite number x at the exponent e >= x.e.
Scale(x, e) == x.m * Pow10(e - x.e)

SignOf(x) == IF x.m > 0 THEN 1 ELSE IF x.m < 0 THEN -1 ELSE 0

\* a + b
NumAdd(a, b) ==
  IF a.k = "nan" \/ b.k = "nan" THEN NaN
  ELSE IF a.k = "inf" /\ b.k = "inf" THEN (IF a.m = b.m THEN a ELSE NaN)
  ELSE IF a.k = "inf" THEN a
  ELSE IF b.k = "inf" THEN b
  ELSE LET e == MaxOf(a.e, b.e) IN Normalize(Scale(a, e) + Scale(b, e), e)

\* -a
NumNeg(a) == IF a.k = "nan" THEN NaN ELSE [a EXCEPT !.m = -a.m]

\* a - b
NumSub(a, b) == NumAdd(a, NumNeg(b))

\* a * b
NumMul(a, b) ==
  IF a.k = "nan" \/ b.k = "nan" THEN NaN
  ELSE IF a.k = "inf" \/ b.k = "inf"
    THEN (IF SignOf(a) * SignOf(b) = 0 THEN NaN
          ELSE IF SignOf(a) * SignOf(b) > 0 THEN PosInfinity ELSE NegInfinity)
  ELSE Normalize(a.m * b.m, a.e + b.e)

\* a > b (false when either is NaN)
NumGt(a, b) ==
  IF a.k = "nan" \/ b.k = "nan" THEN FALSE
  ELSE IF a.k = "inf" THEN a.m > 0 /\ a /= b
  ELSE IF b.k = "inf" THEN b.m < 0
  ELSE LET e == MaxOf(a.e, b.e) IN Scale(a, e) > Scale(b, e)

\* Math.round(x): the nearest integer, a tie going towards +Infinity.
MathRound(x) ==
  IF x.k /= "fin" THEN x
  ELSE IF x.e <= 0 THEN x
  ELSE LET d == Pow10(x.e) IN Normalize((2 * x.m + d) \div (2 * d), 0)

\* x / 100
DivHundred(x) == IF x.k /= "fin" THEN x ELSE Normalize(x.m, x.e + 2)

(***************************************************************************)
(* parseFloat on a string of characters: an optional sign, digits, an      *)
(* optional "." and digits; the longest such prefix is the number, and a   *)
(* string with no digit there is NaN.  (Leading white space, exponents and *)
(* the literal "Infinity" are not modelled: the exchange sends none.)      *)
(***************************************************************************)
Digits == {"0", "1", "2", "3", "4", "5", "6", "7", "8", "9"}

DigitVal(c) ==
  CASE c = "0" -> 0 [] c = "1" -> 1 [] c = "2" -> 2 [] c = "3" -> 3
    [] c = "4" -> 4 [] c = "5" -> 5 [] c = "6" -> 6 [] c = "7" -> 7
    [] c = "8" -> 8 [] c = "9" -> 9

RECURSIVE ScanDigits(_, _, _, _)
ScanDigits(s, i, acc, n) ==
  IF i <= Len(s) /\ s[i] \in Digits
    THEN ScanDigits(s, i + 1, acc * 10 + DigitVal(s[i]), n + 1)
    ELSE [i |-> i, acc |-> acc, n |-> n]

parseFloat(s) ==
  LET signed == Len(s) >= 1 /\ s[1] \in {"-", "+"}
      neg    == Len(s) >= 1 /\ s[1] = "-"
      ip     == ScanDigits(s, IF signed THEN 2 ELSE 1, 0, 0)
      hasDot == ip.i <= Len(s) /\ s[ip.i] = "."
      fp     == IF hasDot THEN ScanDigits(s, ip.i + 1, ip.acc, 0)
                ELSE [i |-> ip.i, acc |-> ip.acc, n |-> 0]
  IN  IF ip.n + fp.n = 0 THEN NaN
      ELSE Normalize((IF neg THEN -1 ELSE 1) * fp.acc, fp.n)

(***************************************************************************)
(* (a / b).toFixed(f): the quotient written with f fractional digits, the  *)
(* last one rounded to nearest (a tie going up in magnitude); "Infinity",  *)
(* "-Infinity" and "NaN" for the quotients that are not finite.            *)
(***************************************************************************)
DigitChar(d) ==
  CASE d = 0 -> "0" [] d = 1 -> "1" [] d = 2 -> "2" [] d = 3 -> "3"
    [] d = 4 -> "4" [] d = 5 -> "5" [] d = 6 -> "6" [] d = 7 -> "7"
    [] d = 8 -> "8" [] d = 9 -> "9"

\* The decimal digits of the natural number n.
RECURSIVE IntToStr(_)
IntToStr(n) ==
  IF n < 10 THEN <<DigitChar(n)>>
  ELSE IntToStr(n \div 10) \o <<DigitChar(n % 10)>>

\* The last `width` decimal digits of n, zeros in front.
RECURSIVE PadDigits(_, _)
PadDigits(n, width) ==
  IF width = 0 THEN <<>>
  ELSE PadDigits(n \div 10, width - 1) \o <<DigitChar(n % 10)>>

\* f more digits of the quotient with remainder r and divisor d.
RECURSIVE LongDiv(_, _, _, _)
LongDiv(r, d, f, acc) ==
  IF f = 0 THEN [frac |-> acc, rem |-> r]
  ELSE LongDiv((r * 10) % d, d, f - 1, acc * 10 + ((r * 10) \div d))

Abs(n) == IF n < 0 THEN -n ELSE n

StrNaN == <<"N", "a", "N">>

StrInfinity == <<"I", "n", "f", "i", "n", "i", "t", "y">>

\* toFixed cutting the digits after the f-th instead of rounding.
DivToFixed_Truncate(a, b, f) ==
  IF a.k /= "fin" \/ b.k /= "fin" \/ b.m = 0 THEN StrNaN
  ELSE
    LET e  == MaxOf(a.e, b.e)
        n  == Abs(Scale(a, e))
        d  == Abs(Scale(b, e))
        ld == LongDiv(n % d, d, f, 0)
    IN  (IF SignOf(a) * SignOf(b) < 0 THEN <<"-">> ELSE <<>>)
        \o IntToStr(n \div d) \o <<".">> \o PadDigits(ld.frac, f)

DivToFixed(a, b, f) ==
  IF a.k = "nan" \/ b.k = "nan" THEN StrNaN
  ELSE IF a.k = "inf" /\ b.k = "inf" THEN StrNaN
  ELSE IF a.k = "inf"
    THEN (IF a.m * (IF b.m < 0 THEN -1 ELSE 1) > 0 THEN StrInfinity
          ELSE <<"-">> \o StrInfinity)
  ELSE IF b.k = "inf" THEN <<"0", ".">> \o PadDigits(0, f)
  ELSE IF b.m = 0
    THEN (IF a.m = 0 THEN StrNaN
          ELSE IF a.m > 0 THEN StrInfinity ELSE <<"-">> \o StrInfinity)
  ELSE
    LET e    == MaxOf(a.e, b.e)
        n    == Abs(Scale(a, e))
        d    == Abs(Scale(b, e))
        ld   == LongDiv(n % d, d, f, 0)
        up   == 2 * ld.rem >= d
        frac == IF up THEN ld.frac + 1 ELSE ld.frac
        int  == (n \div d) + (IF frac = Pow10(f) THEN 1 ELSE 0)
        neg  == SignOf(a) * SignOf(b) < 0
    IN  (IF neg THEN <<"-">> ELSE <<>>)
        \o IntToStr(int) \o <<".">> \o PadDigits(frac % Pow10(f), f)

(***************************************************************************)
(* The valuation calculator.  A balance is [asset, free, locked] with the  *)
(* amounts as the exchange sends them, strings; a price table maps some    *)
(* symbols to price strings.                                               *)
(***************************************************************************)

\* if (prices[symbol]): a missing entry (undefined) and '' are falsy, every
\* other string, "0" included, is truthy.
IsTruthy(prices, symbol) == symbol \in DOMAIN prices /\ prices[symbol] /= <<>>

\* AddBalance adding the amount of a priced asset without its price.
AddBalance_NoPrice(total, balance, prices) ==
  LET totalAmount == NumAdd(parseFloat(balance.free), parseFloat(balance.locked))
      symbol      == balance.asset \o "USDT"
  IN  IF NumGt(totalAmount, Zero)
           /\ (balance.asset \in {"USDT", "BUSD"} \/ IsTruthy(prices, symbol))
        THEN NumAdd(total, totalAmount)
        ELSE total

\* AddBalance looking the quote currency up in the price table like any asset.
AddBalance_QuoteLookup(total, balance, prices) ==
  LET totalAmount == NumAdd(parseFloat(balance.free), parseFloat(balance.locked))
      symbol      == balance.asset \o "USDT"
  IN  IF NumGt(totalAmount, Zero)
        THEN IF balance.asset = "BUSD" THEN NumAdd(total, totalAmount)
             ELSE IF IsTruthy(prices, symbol)
               THEN NumAdd(total, NumMul(totalAmount, parseFloat(prices[symbol])))
               ELSE total
        ELSE total

\* AddBalance taking a missing price for a price of 1.
AddBalance_MissingAsOne(total, balance, prices) ==
  LET totalAmount == NumAdd(parseFloat(balance.free), parseFloat(balance.locked))
      symbol      == balance.asset \o "USDT"
  IN  IF NumGt(totalAmount, Zero)
        THEN IF balance.asset \in {"USDT", "BUSD"} \/ ~IsTruthy(prices, symbol)
               THEN NumAdd(total, totalAmount)
               ELSE NumAdd(total, NumMul(totalAmount, parseFloat(prices[symbol])))
        ELSE total

\* AddBalance valuing BUSD at its BUSDUSDT price when the table has one.
AddBalance_PegLookup(total, balance, prices) ==
  LET totalAmount == NumAdd(parseFloat(balance.free), parseFloat(balance.locked))
      symbol      == balance.asset \o "USDT"
  IN  IF NumGt(totalAmount, Zero)
        THEN IF balance.asset = "USDT" THEN NumAdd(total, totalAmount)
             ELSE IF IsTruthy(prices, symbol)
               THEN NumAdd(total, NumMul(totalAmount, parseFloat(prices[symbol])))
               ELSE IF balance.asset = "BUSD" THEN NumAdd(total, totalAmount)
               ELSE total
        ELSE total

\* AddBalance assigning the quote currency's amount to the total (total =
\* totalAmount) where the code adds it.
AddBalance_Overwrite(total, balance, prices) ==
  LET totalAmount == NumAdd(parseFloat(balance.free), parseFloat(balance.locked))
      symbol      == balance.asset \o "USDT"
  IN  IF NumGt(totalAmount, Zero)
        THEN IF balance.asset = "USDT" THEN totalAmount
             ELSE IF balance.asset = "BUSD" THEN NumAdd(total, totalAmount)
             ELSE IF IsTruthy(prices, symbol)
               THEN NumAdd(total, NumMul(totalAmount, parseFloat(prices[symbol])))
               ELSE total
        ELSE total

\* The callback of balances.forEach: the running total after `balance`.
AddBalance(total, balance, prices) ==
  LET free        == parseFloat(balance.free)
      locked      == parseFloat(balance.locked)
      totalAmount == NumAdd(free, locked)
      symbol      == balance.asset \o "USDT"
  IN  IF NumGt(totalAmount, Zero)
        THEN IF balance.asset = "USDT" THEN NumAdd(total, totalAmount)
             ELSE IF balance.asset = "BUSD" THEN NumAdd(total, totalAmount)
             ELSE IF IsTruthy(prices, symbol)
               THEN NumAdd(total, NumMul(totalAmount, parseFloat(prices[symbol])))
               ELSE total
        ELSE total

\* balances.forEach from the i-th balance on, in the list's order.
RECURSIVE ForEachBalance(_, _, _, _)
ForEachBalance(balances, prices, i, total) ==
  IF i > Len(balances) THEN total
  ELSE ForEachBalance(balances, prices, i + 1, AddBalance(total, balances[i], prices))

calculateTotalBalance(balances, prices) == ForEachBalance(balances, prices, 1, Zero)

(***************************************************************************)
(* GET /api/wallet/balance once both upstream calls have answered: the     *)
(* response body built from the account data and the price table.  The     *)
(* fields copied through from the account (permissions, canTrade, ...),    *)
(* the two timestamps and the constant dayChangePercent are left out.      *)
(***************************************************************************)
nonZeroBalances(accountData) ==
  SelectSeq(accountData.balances,
            LAMBDA balance : \/ NumGt(parseFloat(balance.free), Zero)
                             \/ NumGt(parseFloat(balance.locked), Zero))

\* balances.map(b => ({ ...b, locked: '0' }))
ZeroLocked(balances) ==
  [i \in 1..Len(balances) |-> [balances[i] EXCEPT !.locked = <<"0">>]]

\* Round2 with Math.floor for Math.round: the cents are cut, not rounded.
Round2_Floor(x) ==
  LET c == NumMul(x, Hundred)
  IN  DivHundred(IF c.k /= "fin" \/ c.e <= 0 THEN c
                 ELSE Normalize(c.m \div Pow10(c.e), 0))

\* Round2 without the scaling by 100: Math.round(x).
Round2_Integer(x) == MathRound(x)

\* Math.round(x * 100) / 100
Round2(x) == DivHundred(MathRound(NumMul(x, Hundred)))

\* One element of balanceData.balances before the filter.
AssetEntry(balance, prices) ==
  LET amount == NumAdd(parseFloat(balance.free), parseFloat(balance.locked))
      symbol == balance.asset \o "USDT"
  IN  [asset     |-> balance.asset,
       free      |-> parseFloat(balance.free),
       locked    |-> parseFloat(balance.locked),
       total     |-> amount,
       usdtValue |-> IF balance.asset = "USDT" THEN amount
                     ELSE IF IsTruthy(prices, symbol)
                       THEN NumMul(amount, parseFloat(prices[symbol]))
                       ELSE Zero]

\* The arguments of calculateTotalBalance as the call leaves them: the forEach
\* callback reads balance.asset, balance.free, balance.locked and
\* prices[symbol], and assigns only its local total.
calculateTotalBalanceArgs(balances, prices) ==
  [balances |-> balances, prices |-> prices]

\* The zeroing of locked done in place (b.locked = '0') on the records of
\* nonZeroBalances.
nonZeroAfterMap_InPlace(balances) ==
  [i \in 1..Len(balances) |-> [balances[i] EXCEPT !.locked = <<"0">>]]

\* nonZeroBalances after nonZeroBalances.map(b => ({ ...b, locked: '0' })):
\* the callback builds a new object for each record and writes to none.
nonZeroAfterMap(balances) == balances

\* lockedBalance taken as the difference of the two rounded figures.
lockedBalance_OfRounded(accountData, prices) ==
  NumSub(Round2(calculateTotalBalance(nonZeroBalances(accountData), prices)),
         Round2(calculateTotalBalance(ZeroLocked(nonZeroBalances(accountData)),
                                      prices)))

\* const totalBalance = calculateTotalBalance(nonZeroBalances, prices)
totalBalance(accountData, prices) ==
  calculateTotalBalance(nonZeroBalances(accountData), prices)

\* const availableBalance = calculateTotalBalance(<locked zeroed>, prices)
availableBalance(accountData, prices) ==
  calculateTotalBalance(ZeroLocked(nonZeroBalances(accountData)), prices)

\* const lockedBalance = totalBalance - availableBalance
lockedBalance(accountData, prices) ==
  NumSub(totalBalance(accountData, prices), availableBalance(accountData, prices))

\* The per-asset filter keeping the entries worth something, not those held.
ListedEntry_ByValue(b) == NumGt(b.usdtValue, Zero)

\* .filter(b => b.total > 0)
ListedEntry(b) == NumGt(b.total, Zero)

\* (totalBalance / parseFloat(btcPrice)).toFixed(8)
btcValueOf(total, btcPrice) == DivToFixed(total, parseFloat(btcPrice), 8)

BuildBalanceData(accountData, prices) ==
  LET nonZero == nonZeroBalances(accountData)
      total   == totalBalance(accountData, prices)
      records == nonZeroAfterMap(calculateTotalBalanceArgs(nonZero, prices).balances)
      entries == [i \in 1..Len(records) |-> AssetEntry(records[i], prices)]
      body == [total     |-> Round2(total),
               available |-> Round2(availableBalance(accountData, prices)),
               inOrders  |-> Round2(lockedBalance(accountData, prices)),
               currency  |-> "USDT",
               balances  |-> SelectSeq(entries, ListedEntry)]
  IN  IF IsTruthy(prices, "BTCUSDT")
        THEN body @@ [btcValue |-> btcValueOf(total, prices["BTCUSDT"])]
        ELSE body

(***************************************************************************)
(* JavaScript values and plain objects.  An object is the sequence of its  *)
(* own properties [key, value] in insertion order.                         *)
(***************************************************************************)
Undefined == [t |-> "undefined"]

JsString(s) == [t |-> "string", s |-> s]

JsNumber(n) == [t |-> "number", n |-> n]

\* !!v for the values an environment variable takes: undefined and '' are falsy.
Truthy(v) == v /= Undefined /\ v /= JsString(<<>>)

HasKey(obj, key) == \E i \in 1..Len(obj) : obj[i].key = key

Get(obj, key) ==
  IF HasKey(obj, key)
    THEN obj[CHOOSE i \in 1..Len(obj) : obj[i].key = key].value
    ELSE Undefined

Keys(obj) == {obj[i].key : i \in 1..Len(obj)}

\* { ...obj, key: value }: an own property keeps its place and takes the new
\* value, a new property goes last.
SpreadWith(obj, key, value) ==
  IF HasKey(obj, key)
    THEN [i \in 1..Len(obj) |->
            IF obj[i].key = key THEN [key |-> key, value |-> value] ELSE obj[i]]
    ELSE Append(obj, [key |-> key, value |-> value])

(***************************************************************************)
(* new URLSearchParams(obj).toString(): key=value pairs in the object's    *)
(* order, joined by "&".  The result is a sequence of tokens: a key, "=",  *)
(* "&" and the characters of a value, those that are reserved in a query   *)
(* string percent-encoded (one token each).                                *)
(***************************************************************************)
EncodeChar(c) ==
  CASE c = "&" -> "%26" [] c = "=" -> "%3D" [] c = " " -> "+" [] OTHER -> c

EncodeValue(value) ==
  IF value.t = "number" THEN IntToStr(value.n)
  ELSE IF value.t = "string" THEN [i \in 1..Len(value.s) |-> EncodeChar(value.s[i])]
  ELSE <<"undefined">>

RECURSIVE SerializeFrom(_, _)
SerializeFrom(obj, i) ==
  IF i > Len(obj) THEN <<>>
  ELSE (IF i > 1 THEN <<"&">> ELSE <<>>)
       \o <<obj[i].key, "=">> \o EncodeValue(obj[i].value)
       \o SerializeFrom(obj, i + 1)

URLSearchParamsToString(obj) == SerializeFrom(obj, 1)

(***************************************************************************)
(* The signers.  The hex digest of HMAC-SHA256 is the term [key, msg]: two *)
(* digests are equal exactly when key and message are.  A call's outcome   *)
(* records what the call did, in the order the code does it (steps).       *)
(***************************************************************************)
Hmac(key, msg) == [t |-> "hmac", key |-> key, msg |-> msg]

\* signCall before any signer was called.
NoCall == [fn |-> "none"]

ConfigurationError == "SECRET_KEY is not configured"

TypeError == "TypeError: the key argument must be of type string"

\* generateSignature(queryString), server.js line 21.
generateSignature(queryString) ==
  IF ~Truthy(SECRET_KEY)
    THEN [threw |-> TRUE, error |-> ConfigurationError, value |-> Undefined,
          steps |-> <<"checkSecret", "throw">>]
    ELSE [threw |-> FALSE, error |-> "", value |-> Hmac(SECRET_KEY.s, queryString),
          steps |-> <<"checkSecret", "createHmac">>]

\* createSignedParams writing timestamp and signature into the caller's object
\* (Object.assign(params, ...)) instead of into a copy.
createSignedParams_Assign(params) ==
  LET timestamp   == JsNumber(clock)
      queryString == URLSearchParamsToString(SpreadWith(params, "timestamp", timestamp))
      signature   == generateSignature(queryString)
      result      == SpreadWith(SpreadWith(params, "timestamp", timestamp),
                                "signature", signature.value)
  IN  [fn |-> "createSignedParams", params |-> params, now |-> clock,
       secret |-> SECRET_KEY,
       paramsAfter |-> IF signature.threw
                         THEN SpreadWith(params, "timestamp", timestamp)
                         ELSE result,
       signed |-> queryString,
       steps |-> <<"Date.now", "URLSearchParams">> \o signature.steps,
       threw |-> signature.threw, error |-> signature.error,
       ret |-> IF signature.threw THEN <<>> ELSE result]

\* createSignedParams keeping its timestamps strictly increasing across calls:
\* a timestamp not above the last one issued is bumped past it.
createSignedParams_Monotonic(params) ==
  LET last        == IF signCall /= NoCall /\ ~signCall.threw
                       THEN Get(signCall.ret, "timestamp").n ELSE -1
      timestamp   == JsNumber(IF clock <= last THEN last + 1 ELSE clock)
      queryString == URLSearchParamsToString(SpreadWith(params, "timestamp", timestamp))
      signature   == generateSignature(queryString)
  IN  [fn |-> "createSignedParams", params |-> params, now |-> clock,
       secret |-> SECRET_KEY, paramsAfter |-> params,
       signed |-> queryString,
       steps |-> <<"Date.now", "URLSearchParams">> \o signature.steps,
       threw |-> signature.threw, error |-> signature.error,
       ret |-> IF signature.threw THEN <<>>
               ELSE SpreadWith(SpreadWith(params, "timestamp", timestamp),
                               "signature", signature.value)]

\* createSignedParams spreading the caller's parameters last
\* ({ timestamp, signature, ...params }): a 'timestamp' or 'signature' of the
\* caller wins over the fresh one.
createSignedParams_CallerWins(params) ==
  LET timestamp   == JsNumber(clock)
      queryString == URLSearchParamsToString(SpreadWith(params, "timestamp", timestamp))
      signature   == generateSignature(queryString)
      fresh       == << [key |-> "timestamp",
                         value |-> IF HasKey(params, "timestamp")
                                     THEN Get(params, "timestamp") ELSE timestamp],
                        [key |-> "signature",
                         value |-> IF HasKey(params, "signature")
                                     THEN Get(params, "signature")
                                     ELSE signature.value] >>
  IN  [fn |-> "createSignedParams", params |-> params, now |-> clock,
       secret |-> SECRET_KEY, paramsAfter |-> params,
       signed |-> queryString,
       steps |-> <<"Date.now", "URLSearchParams">> \o signature.steps,
       threw |-> signature.threw, error |-> signature.error,
       ret |-> IF signature.threw THEN <<>>
               ELSE fresh \o SelectSeq(params, LAMBDA q :
                                         q.key \notin {"timestamp", "signature"})]

\* createSignedParams(params), server.js line 32.
createSignedParams(params) ==
  LET timestamp   == JsNumber(clock)
      queryString == URLSearchParamsToString(SpreadWith(params, "timestamp", timestamp))
      signature   == generateSignature(queryString)
      steps       == <<"Date.now", "URLSearchParams">> \o signature.steps
  IN  [fn |-> "createSignedParams", params |-> params, now |-> clock,
       secret |-> SECRET_KEY, paramsAfter |-> params,
       signed |-> queryString, steps |-> steps,
       threw |-> signature.threw, error |-> signature.error,
       ret |-> IF signature.threw THEN <<>>
               ELSE SpreadWith(SpreadWith(params, "timestamp", timestamp),
                               "signature", signature.value)]

\* crypto.createHmac('sha256', key): a key that is no string is a TypeError,
\* the empty string is a key like any other.
createHmac(key, msg) ==
  IF key = Undefined
    THEN [threw |-> TRUE, error |-> TypeError, value |-> Undefined,
          steps |-> <<"createHmac", "throw">>]
    ELSE [threw |-> FALSE, error |-> "", value |-> Hmac(key.s, msg),
          steps |-> <<"createHmac">>]

\* sign(params), server.js line 1098.
sign(params) ==
  LET timestamp   == JsNumber(clock)
      queryString == URLSearchParamsToString(SpreadWith(params, "timestamp", timestamp))
      signature   == createHmac(SECRET_KEY, queryString)
      steps       == <<"Date.now", "URLSearchParams">> \o signature.steps
  IN  [fn |-> "sign", params |-> params, now |-> clock,
       secret |-> SECRET_KEY, paramsAfter |-> params,
       signed |-> queryString, steps |-> steps,
       threw |-> signature.threw, error |-> signature.error,
       ret |-> IF signature.threw THEN <<>>
               ELSE SpreadWith(SpreadWith(params, "timestamp", timestamp),
                               "signature", signature.value)]

(***************************************************************************)
(* The inputs: what the environment holds, what a caller passes to a       *)
(* signer, and what the exchange answers.                                  *)
(***************************************************************************)

\* BINANCE_SECRET_KEY and BINANCE_API_KEY: unset, set to '', or set.
EnvValues == {Undefined, JsString(<<>>), JsString(<<"k">>)}

ParamPairs ==
  { [key |-> "symbol",    value |-> JsString(<<"A", "&", "B">>)],
    [key |-> "signature", value |-> JsString(<<"a", "b", "c">>)],
    [key |-> "timestamp", value |-> JsString(<<"1">>)] }

\* The objects of at most MaxParams properties, each key at most once.
ParamObjects ==
  { obj \in UNION { [1..n -> ParamPairs] : n \in 0..MaxParams } :
      \A i, j \in 1..Len(obj) : obj[i].key = obj[j].key => i = j }

Assets == {"USDT", "BUSD", "BTC", "XYZ"}

\* <<free, locked>> as the exchange writes them: non-negative decimals.
SmallAmounts ==
  { << <<"0">>, <<"0">> >>,
    << <<"0", ".", "5">>, <<"0", ".", "1">> >>,
    << <<"0", ".", "0", "0", "4">>, <<"0", ".", "0", "0", "4">> >> }

LargeAmounts ==
  { << <<"1", "0", "0">>, <<"0">> >> }

\* XYZ held at free 10, locked 0.
UnpricedAmounts ==
  { << <<"1", "0">>, <<"0">> >> }

ExchangeBalances ==
  { [asset |-> a, free |-> p[1], locked |-> p[2]] : a \in Assets, p \in SmallAmounts }
  \cup
  { [asset |-> a, free |-> p[1], locked |-> p[2]] :
      a \in {"USDT", "BUSD"}, p \in LargeAmounts }
  \cup
  { [asset |-> "XYZ", free |-> p[1], locked |-> p[2]] : p \in UnpricedAmounts }

BalanceLists == UNION { [1..n -> ExchangeBalances] : n \in 0..MaxBalances }

\* The price tables: each symbol absent or at one of its prices.
PriceChoices ==
  [ BTCUSDT : {<<>>, <<"3", "0", "0", "0", "0">>, <<"0">>},
    BUSDUSDT : {<<>>, <<"0", ".", "9">>},
    XYZUSDT : {<<>>, <<"1", ".", "5">>} ]

\* The table of a choice: the symbols the choice gives a price.
TableOf(choice) ==
  LET symbols == {sym \in DOMAIN choice : choice[sym] /= <<>>}
  IN  [sym \in symbols |-> choice[sym]]

PriceTables == {TableOf(choice) : choice \in PriceChoices}

(***************************************************************************)
(* The HTTP layer: the handlers of GET /api/health, /api/wallet/balance,    *)
(* /api/wallet/orders and /api/wallet/fees.  A request is a record: the     *)
(* endpoint, the handler's position (pc), its locals prices and             *)
(* accountData, the outbound calls it made (calls), what it did in order    *)
(* (steps) and the responses it sent (sent).  A handler runs from one await  *)
(* to the next in one step.                                                 *)
(***************************************************************************)
\* accountData and prices before the exchange has answered.
NoAccount == [balances |-> <<>>]

NoPrices == <<>>

PriceUrl == "/api/v3/ticker/price"

AccountUrl == "/api/v3/account"

OrdersUrl == "/api/v3/openOrders"

\* No error: the error field of a call that has not failed.
NoError == [response |-> Undefined, message |-> ""]

\* An axios error without a response: the network failed or the call timed out.
NetworkError == [response |-> Undefined, message |-> "Network Error"]

\* An axios error carrying the exchange's response.
HttpError(status, data) ==
  [response |-> [status |-> status, data |-> data],
   message |-> "Request failed with status code"]

\* The error a throw inside the handler hands to its catch block.
Thrown(message) == [response |-> Undefined, message |-> message]

\* accountData.balances.filter when the body has no balances.
TypeErrorFilter == "TypeError: Cannot read properties of undefined"

IdleRequest ==
  [endpoint |-> "none", pc |-> "idle", prices |-> NoPrices,
   accountData |-> NoAccount, calls |-> <<>>, steps |-> <<>>, sent |-> <<>>]

\* res.status(status).json(body): the handler answers and ends.
Send(req, status, body) ==
  [req EXCEPT !.pc = "done",
              !.sent = Append(@, [status |-> status, body |-> body]),
              !.steps = Append(@, "res.json")]

\* await axios.get(url, config): the call goes out and the handler waits.
axiosGet(req, pc, url, config) ==
  [req EXCEPT !.pc = pc,
              !.calls = Append(@, [url |-> url, headers |-> config.headers,
                                   params |-> config.params,
                                   state |-> "pending", data |-> <<>>,
                                   error |-> NoError]),
              !.steps = Append(@, "get " \o url)]

\* The pending call to url settles: fulfilled, or rejected with an error.
Settle(req, url, outcome) ==
  LET i == CHOOSE i \in 1..Len(req.calls) :
             req.calls[i].url = url /\ req.calls[i].state = "pending"
  IN  [req EXCEPT !.calls[i].state = IF outcome.ok THEN "fulfilled" ELSE "rejected",
                  !.calls[i].data = outcome.data,
                  !.calls[i].error = outcome.error,
                  !.steps = Append(@, "settled " \o url)]

\* The config of a public call: no header, no parameter.
PublicConfig == [headers |-> <<>>, params |-> <<>>]

\* The config of a signed call: the API key header and the signed parameters.
SignedConfig(params) ==
  [headers |-> <<[key |-> "X-MBX-APIKEY", value |-> API_KEY]>>, params |-> params]

\* response.data.forEach(ticker => prices[ticker.symbol] = ticker.price):
\* a symbol listed twice keeps its last price.
TickerTable(tickers) ==
  [sym \in {tickers[i].symbol : i \in 1..Len(tickers)} |->
     tickers[CHOOSE i \in 1..Len(tickers) :
               /\ tickers[i].symbol = sym
               /\ \A j \in 1..Len(tickers) : tickers[j].symbol = sym => j <= i].price]

\* What getCurrentPrices returns once its call has settled: the table, or {}
\* when the call failed (the catch block).
getCurrentPrices(outcome) ==
  IF outcome.ok THEN TickerTable(outcome.data) ELSE NoPrices

\* GET /api/health.
health_Guarded(req) ==
  IF ~Truthy(API_KEY) \/ ~Truthy(SECRET_KEY)
    THEN Send([req EXCEPT !.endpoint = "health"], 500,
              [error |-> "Binance API credentials not configured"])
    ELSE Send([req EXCEPT !.endpoint = "health"], 200,
              [status |-> "ok", service |-> "Binance Wallet Balance API",
               apiKeyConfigured |-> TRUE, secretKeyConfigured |-> TRUE])

health(req) ==
  Send([req EXCEPT !.endpoint = "health"], 200,
       [status |-> "ok", service |-> "Binance Wallet Balance API",
        apiKeyConfigured |-> Truthy(API_KEY),
        secretKeyConfigured |-> Truthy(SECRET_KEY)])

\* error.response?.data?.msg is there and truthy.
HasMsg(error) ==
  /\ error.response /= Undefined
  /\ HasKey(error.response.data, "msg")
  /\ Get(error.response.data, "msg") /= ""

\* classifyError looking at the exchange's msg before the status.
classifyError_MsgFirst(error) ==
  IF HasMsg(error)
    THEN [status |-> 400, body |-> [error |-> Get(error.response.data, "msg")]]
  ELSE IF error.response /= Undefined /\ error.response.status = 401
    THEN [status |-> 401, body |-> [error |-> "Invalid API key or signature"]]
  ELSE IF error.response /= Undefined /\ error.response.status = 403
    THEN [status |-> 403,
          body |-> [error |-> "API key does not have required permissions"]]
  ELSE [status |-> 500,
        body |-> [error |-> "Failed to fetch wallet balance from Binance",
                  details |-> error.message]]

\* The catch block of the balance handler: the answer to an error.
classifyError(error) ==
  IF error.response /= Undefined /\ error.response.status = 401
    THEN [status |-> 401, body |-> [error |-> "Invalid API key or signature"]]
  ELSE IF error.response /= Undefined /\ error.response.status = 403
    THEN [status |-> 403,
          body |-> [error |-> "API key does not have required permissions"]]
  ELSE IF HasMsg(error)
    THEN [status |-> 400, body |-> [error |-> Get(error.response.data, "msg")]]
  ELSE [status |-> 500,
        body |-> [error |-> "Failed to fetch wallet balance from Binance",
                  details |-> error.message]]

catchBalance(req, error) ==
  Send(req, classifyError(error).status, classifyError(error).body)

\* The balance handler sending both calls at once (Promise.all) instead of
\* one after the other.
balanceStart_Concurrent(req) ==
  IF ~Truthy(API_KEY) \/ ~Truthy(SECRET_KEY)
    THEN Send([req EXCEPT !.endpoint = "balance"], 500,
              [error |-> "Binance API credentials not configured"])
    ELSE axiosGet(axiosGet([req EXCEPT !.endpoint = "balance"],
                           "getCurrentPrices", PriceUrl, PublicConfig),
                  "getCurrentPrices", AccountUrl,
                  SignedConfig(createSignedParams(<<>>).ret))

\* The balance handler answering the missing credentials without `return`:
\* it goes on to fetch the prices after the 500.
balanceStart_NoReturn(req) ==
  IF ~Truthy(API_KEY) \/ ~Truthy(SECRET_KEY)
    THEN axiosGet(Send([req EXCEPT !.endpoint = "balance"], 500,
                       [error |-> "Binance API credentials not configured"]),
                  "getCurrentPrices", PriceUrl, PublicConfig)
    ELSE axiosGet([req EXCEPT !.endpoint = "balance"],
                  "getCurrentPrices", PriceUrl, PublicConfig)

\* GET /api/wallet/balance up to its first await: the credentials check and
\* the start of getCurrentPrices.
balanceStart(req) ==
  IF ~Truthy(API_KEY) \/ ~Truthy(SECRET_KEY)
    THEN Send([req EXCEPT !.endpoint = "balance"], 500,
              [error |-> "Binance API credentials not configured",
               details |-> [apiKey |-> Truthy(API_KEY),
                            secretKey |-> Truthy(SECRET_KEY)]])
    ELSE axiosGet([req EXCEPT !.endpoint = "balance"],
                  "getCurrentPrices", PriceUrl, PublicConfig)

\* GET /api/wallet/balance from the answer of the price list to its second
\* await: getCurrentPrices returns, the parameters are signed, the account
\* call goes out.
balanceAfterPrices(req, outcome) ==
  LET settled == [Settle(req, PriceUrl, outcome)
                    EXCEPT !.prices = getCurrentPrices(outcome)]
      accountParams == createSignedParams(<<>>)
  IN  IF accountParams.threw
        THEN catchBalance(settled, Thrown(accountParams.error))
        ELSE axiosGet(settled, "account", AccountUrl,
                      SignedConfig(accountParams.ret))

\* The balance handler keeping the price table in a variable of the module
\* that every request writes: the valuation uses the table written last.
balanceAfterAccount_SharedPrices(req, outcome) ==
  LET settled == Settle(req, AccountUrl, outcome)
      fetched == {r \in DOMAIN requests : DOMAIN requests[r].prices /= {}}
      prices  == IF fetched = {} THEN settled.prices
                 ELSE requests[CHOOSE r \in fetched : \A q \in fetched : q <= r].prices
  IN  IF ~outcome.ok THEN Send(settled, 500, [error |-> "failed"])
      ELSE IF "balances" \notin DOMAIN outcome.data
        THEN Send(settled, 500, [error |-> "failed"])
      ELSE Send([settled EXCEPT !.accountData = outcome.data,
                                !.steps = Append(@, "calculateTotalBalance")],
                200, BuildBalanceData(outcome.data, prices))

\* GET /api/wallet/balance from the answer of the account call to its end.
balanceAfterAccount(req, outcome) ==
  LET settled == Settle(req, AccountUrl, outcome)
      statsParams == createSignedParams(<<>>)
  IN  IF ~outcome.ok THEN catchBalance(settled, outcome.error)
      ELSE IF "balances" \notin DOMAIN outcome.data
        THEN catchBalance(settled, Thrown(TypeErrorFilter))
      ELSE IF statsParams.threw
        THEN catchBalance(settled, Thrown(statsParams.error))
      ELSE Send([settled EXCEPT !.accountData = outcome.data,
                                !.steps = Append(@, "calculateTotalBalance")],
                200, BuildBalanceData(outcome.data, settled.prices))

\* GET /api/wallet/orders up to its await.
ordersStart(req) ==
  LET ordersParams == createSignedParams(<<>>)
  IN  IF ordersParams.threw
        THEN Send([req EXCEPT !.endpoint = "orders"], 500,
                  [error |-> "Failed to fetch open orders"])
        ELSE axiosGet([req EXCEPT !.endpoint = "orders"], "openOrders",
                      OrdersUrl, SignedConfig(ordersParams.ret))

\* GET /api/wallet/orders from the answer of its call.
ordersAfterCall(req, outcome) ==
  IF ~outcome.ok
    THEN Send(Settle(req, OrdersUrl, outcome), 500,
              [error |-> "Failed to fetch open orders"])
    ELSE Send(Settle(req, OrdersUrl, outcome), 200,
              [orders |-> outcome.data, count |-> Len(outcome.data)])

\* x / 10000
DivTenThousand(x) == Normalize(x, 4)

\* GET /api/wallet/fees up to its await.
feesStart(req) ==
  LET feesParams == createSignedParams(<<>>)
  IN  IF feesParams.threw
        THEN Send([req EXCEPT !.endpoint = "fees"], 500,
                  [error |-> "Failed to fetch trading fees"])
        ELSE axiosGet([req EXCEPT !.endpoint = "fees"], "fees",
                      AccountUrl, SignedConfig(feesParams.ret))

\* GET /api/wallet/fees from the answer of its call.
feesAfterCall(req, outcome) ==
  IF ~outcome.ok
    THEN Send(Settle(req, AccountUrl, outcome), 500,
              [error |-> "Failed to fetch trading fees"])
    ELSE Send(Settle(req, AccountUrl, outcome), 200,
              [makerCommission  |-> DivTenThousand(outcome.data.makerCommission),
               takerCommission  |-> DivTenThousand(outcome.data.takerCommission),
               buyerCommission  |-> DivTenThousand(outcome.data.buyerCommission),
               sellerCommission |-> DivTenThousand(outcome.data.sellerCommission)])

(***************************************************************************)
(* What the exchange answers to the calls of a request.                    *)
(***************************************************************************)
Requests == 1..MaxRequests

Fulfilled(data) == [ok |-> TRUE, data |-> data, error |-> NoError]

Rejected(error) == [ok |-> FALSE, data |-> <<>>, error |-> error]

\* The price lists of GET /api/v3/ticker/price.
TickerLists ==
  { << [symbol |-> "BTCUSDT", price |-> <<"3", "0", "0", "0", "0">>] >>,
    << [symbol |-> "XYZUSDT", price |-> <<"1", ".", "5">>],
       [symbol |-> "BTCUSDT", price |-> <<"3", "0", "0", "0", "0">>],
       [symbol |-> "XYZUSDT", price |-> <<"2">>] >> }

PriceOutcomes ==
  {Fulfilled(t) : t \in TickerLists} \cup {Rejected(NetworkError)}

\* The bodies of GET /api/v3/account: two accounts, and a body without
\* balances.
ServerAccounts ==
  { [balances |->
       << [asset |-> "BTC", free |-> <<"0", ".", "5">>, locked |-> <<"0", ".", "1">>],
          [asset |-> "USDT", free |-> <<"1", "0", "0">>, locked |-> <<"0">>] >>,
     makerCommission |-> 10, takerCommission |-> 10,
     buyerCommission |-> 0, sellerCommission |-> 0],
    [balances |->
       << [asset |-> "XYZ", free |-> <<"1", "0">>, locked |-> <<"0">>] >>,
     makerCommission |-> 10, takerCommission |-> 10,
     buyerCommission |-> 0, sellerCommission |-> 0] }

MalformedAccount == [code |-> 0]

\* The error bodies of the exchange: empty, or carrying a msg.
ErrorBodies ==
  { <<>>, <<[key |-> "msg", value |-> "Invalid API-key, IP, or permissions for action."]>> }

ErrorStatuses == {400, 401, 403}

AccountErrors ==
  {HttpError(st, d) : st \in ErrorStatuses, d \in ErrorBodies} \cup {NetworkError}

AccountOutcomes ==
  {Fulfilled(a) : a \in ServerAccounts \cup {MalformedAccount}}
  \cup {Rejected(e) : e \in AccountErrors}

\* The answers to GET /api/v3/openOrders.
OrdersOutcomes ==
  { Fulfilled(<<>>), Fulfilled(<<[symbol |-> "BTCUSDT"]>>),
    Rejected(NetworkError), Rejected(HttpError(401, <<>>)) }

\* The answers to the account call of the fees handler.
FeesOutcomes ==
  {Fulfilled(a) : a \in ServerAccounts}
  \cup {Rejected(NetworkError), Rejected(HttpError(401, <<>>))}

(***************************************************************************)
(* The embedded dashboard (the script of the page GET / sends).  A text is *)
(* a sequence of characters; a character outside ASCII is written by its   *)
(* code point, and a fixed label of the markup is one element.  The page   *)
(* is its two globals, the class lists and texts of its elements, and the  *)
(* calls of fetchBalance in the order they started.                        *)
(***************************************************************************)
Null == [t |-> "null"]

One == Normalize(1, 0)

\* The string formatCurrency and formatNumber return when showBalance is
\* false: six U+2022.
Mask == <<"U+2022", "U+2022", "U+2022", "U+2022", "U+2022", "U+2022">>

\* The digits of an integer part with the en-US grouping separator.
RECURSIVE GroupThousands(_)
GroupThousands(digits) ==
  IF Len(digits) <= 3 THEN digits
  ELSE GroupThousands(SubSeq(digits, 1, Len(digits) - 3)) \o <<",">>
       \o SubSeq(digits, Len(digits) - 2, Len(digits))

\* Intl.NumberFormat('en-US', {style: 'currency', currency: code,
\* minimumFractionDigits: 2, maximumFractionDigits: 2}).format(amount)
IntlCurrency(code, amount) ==
  LET symbol == IF code = "USD" THEN <<"$">> ELSE <<code, "U+00A0">>
      minus  == IF amount.k /= "nan" /\ amount.m < 0 THEN <<"-">> ELSE <<>>
  IN  IF amount.k = "nan" THEN symbol \o StrNaN
      ELSE IF amount.k = "inf" THEN minus \o symbol \o <<"U+221E">>
      ELSE LET fixed == DivToFixed(IF amount.m < 0 THEN NumNeg(amount) ELSE amount,
                                   One, 2)
               dot   == CHOOSE i \in 1..Len(fixed) : fixed[i] = "."
           IN  minus \o symbol \o GroupThousands(SubSeq(fixed, 1, dot - 1))
               \o SubSeq(fixed, dot, Len(fixed))

\* formatCurrency(amount, currency = 'USD'), server.js line 916.
formatCurrency(showBalance, amount, currency) ==
  IF ~showBalance THEN Mask
  ELSE IntlCurrency(IF currency = "USDT" THEN "USD" ELSE currency, amount)

\* formatNumber(num), server.js line 928.
formatNumber(showBalance, num) ==
  IF ~showBalance THEN Mask
  ELSE IF NumGt(num, One) \/ num = One THEN DivToFixed(num, One, 4)
  ELSE DivToFixed(num, One, 8)

\* x || 0 on a number.
OrZero(x) == IF x.k = "nan" \/ (x.k = "fin" /\ x.m = 0) THEN Zero ELSE x

\* balances.sort((a, b) => b.usdtValue - a.usdtValue): descending, entries of
\* equal value keeping their order.
RECURSIVE SortByValue(_)
SortByValue(entries) ==
  IF entries = <<>> THEN <<>>
  ELSE LET front == SortByValue(SubSeq(entries, 1, Len(entries) - 1))
           x     == entries[Len(entries)]
           k     == Cardinality({i \in 1..Len(front) :
                                   ~NumGt(x.usdtValue, front[i].usdtValue)})
       IN  SubSeq(front, 1, k) \o <<x>> \o SubSeq(front, k + 1, Len(front))

\* The assets displayAssets lists: worth more than 1, by value, the first 8.
significantAssets(balances) ==
  LET sorted == SortByValue(SelectSeq(balances, LAMBDA asset : NumGt(asset.usdtValue, One)))
  IN  SubSeq(sorted, 1, IF Len(sorted) < 8 THEN Len(sorted) ELSE 8)

\* The three texts of one asset's row in assets-list.
AssetRow(p, asset) ==
  [asset   |-> asset.asset,
   amount  |-> formatNumber(p.showBalance, asset.total),
   value   |-> formatCurrency(p.showBalance, asset.usdtValue, "USD"),
   percent |-> DivToFixed(NumMul(asset.usdtValue, Hundred), p.balanceData.total, 1)
               \o <<"%">>]

\* displayAssets(balances), server.js line 883.
displayAssets(p, balances) ==
  LET significant == significantAssets(balances)
  IN  IF significant /= <<>>
        THEN [p EXCEPT !.assetsList = [i \in 1..Len(significant) |->
                                         AssetRow(p, significant[i])],
                       !.hidden = @ \ {"assets-section"}]
        ELSE [p EXCEPT !.hidden = @ \cup {"assets-section"}]

\* data.btcValue is there and not the empty string.
BtcValueTruthy(data) == "btcValue" \in DOMAIN data /\ data.btcValue /= <<>>

\* displayBalance(data), server.js line 850.
displayBalance(p, data) ==
  LET shown == [p EXCEPT
        !.text = [@ EXCEPT
           !["total-balance"] = formatCurrency(p.showBalance, data.total, data.currency),
           !["btc-equivalent"] =
              IF BtcValueTruthy(data)
                THEN <<"U+2248", " ">> \o data.btcValue \o <<" ", "B", "T", "C">>
                ELSE <<"U+2248", " ", "0", ".", "0", "0", "0", "0", "0", "0", "0", "0",
                       " ", "B", "T", "C">>,
           !["available-balance"] =
              formatCurrency(p.showBalance, data.available, data.currency),
           !["orders-balance"] =
              formatCurrency(p.showBalance, OrZero(data.inOrders), data.currency)]]
  IN  IF Len(data.balances) > 0 THEN displayAssets(shown, data.balances) ELSE shown

\* toggleBalanceVisibility(), server.js line 944.
toggleBalanceVisibility(p) ==
  LET toggled == [p EXCEPT !.showBalance = ~p.showBalance,
                           !.icon = IF p.showBalance THEN "eye-off" ELSE "eye"]
  IN  IF toggled.balanceData /= Null
        THEN displayBalance(toggled, toggled.balanceData) ELSE toggled

\* fetchBalance() up to its first await: the loading state is shown, the
\* content and the error are hidden, the request is sent.
fetchBalanceStart(p) ==
  [p EXCEPT !.hidden = (@ \ {"loading-state"}) \cup {"balance-content", "error-display"},
            !.spinner = TRUE,
            !.fetches = Append(@, [pc |-> "fetch", response |-> Null])]

\* The finally block of fetchBalance.
fetchBalanceFinally(p) ==
  [p EXCEPT !.hidden = (@ \cup {"loading-state"}) \ {"balance-content"},
            !.spinner = FALSE]

\* The catch block of fetchBalance, then the finally block.
fetchBalanceCatch(p, message) ==
  fetchBalanceFinally([p EXCEPT !.errorMessage = message,
                                !.hidden = @ \ {"error-display"}])

\* fetch() rejected: no response.
FetchRejected == [rejected |-> TRUE]

\* fetchBalance after await fetch(...): call i of the page got `response`, or
\* fetch rejected.
fetchBalanceAfterFetch(p, i, response) ==
  IF response = FetchRejected
    THEN fetchBalanceCatch([p EXCEPT !.fetches[i] = [pc |-> "done", response |-> response]],
                           "Failed to fetch")
    ELSE [p EXCEPT !.fetches[i] = [pc |-> "json", response |-> response]]

\* errorData.error || 'HTTP ' + response.status
ErrorMessageOf(response) ==
  IF "error" \in DOMAIN response.body /\ response.body.error /= ""
    THEN response.body.error
    ELSE "HTTP " \o ToString(response.status)

\* fetchBalance after await response.json(): the rest of the try block, or
\* the throw for a response that is not ok, and the finally block.
fetchBalanceAfterJson(p, i) ==
  LET response == p.fetches[i].response
      ended    == [p EXCEPT !.fetches[i].pc = "done"]
  IN  IF ~response.ok THEN fetchBalanceCatch(ended, ErrorMessageOf(response))
      ELSE LET loaded == [ended EXCEPT !.balanceData = response.body]
           IN  fetchBalanceFinally([displayBalance(loaded, response.body)
                                      EXCEPT !.lastUpdated = <<clock>>])

\* The page as the markup has it, once DOMContentLoaded has run init.
InitialPage ==
  [showBalance |-> TRUE, balanceData |-> Null, icon |-> "eye",
   hidden |-> {"error-display", "loading-state", "assets-section"},
   spinner |-> FALSE,
   text |-> [id \in {"total-balance", "btc-equivalent", "available-balance",
                     "orders-balance"} |->
               CASE id = "total-balance" -> <<"Click refresh to load">>
                 [] id = "btc-equivalent" ->
                      <<"U+2248", " ", "0", ".", "0", "0", "0", "0", "0", "0", "0", "0",
                        " ", "B", "T", "C">>
                 [] OTHER -> <<"$", "0", ".", "0", "0">>],
   assetsList |-> <<>>, errorMessage |-> "", lastUpdated |-> <<>>,
   fetches |-> <<>>]

\* What GET /api/wallet/balance answers the page with: a body the server
\* builds, an error body, or no response at all.
PageResponses ==
  {[ok |-> TRUE, status |-> 200, body |-> BuildBalanceData(a, prices)] :
      a \in ServerAccounts,
      prices \in {TickerTable(t) : t \in TickerLists} \cup {NoPrices}}
  \cup {[ok |-> FALSE, status |-> 500,
         body |-> [error |-> "Binance API credentials not configured"]],
        [ok |-> FALSE, status |-> 502, body |-> [message |-> "Bad Gateway"]],
        FetchRejected}

(***************************************************************************)
(* The React client (WalletBalanceApp).  The component is its state, the   *)
(* timer its first effect has set, and the number of calls of              *)
(* checkConnection and of fetchWalletBalance that wait for their answer.   *)
(* A state update is followed by the render and the effects it causes      *)
(* before any other callback runs.                                         *)
(***************************************************************************)

\* fetchWalletBalance() up to its await.
fetchWalletBalanceStart(c) ==
  [c EXCEPT !.isLoading = TRUE, !.error = <<>>, !.fetches = @ + 1]

\* The two effects with [isConnected] as dependencies, run after a render in
\* which isConnected has changed (and after the first render): the timer of
\* the previous run is cleared, checkConnection is called, a new timer is set
\* whose callback sees this render's isConnected; then the second effect calls
\* fetchWalletBalance when isConnected.
RunEffects(c) ==
  LET first == [c EXCEPT !.checks = @ + 1,
                         !.interval = <<[isConnected |-> c.isConnected]>>]
  IN  IF c.isConnected
        THEN [fetchWalletBalanceStart(first) EXCEPT !.sinceTick = @ + 1]
        ELSE first

\* setIsConnected(value) and the render after it.
setIsConnected(c, value) ==
  IF c.isConnected = value THEN c ELSE RunEffects([c EXCEPT !.isConnected = value])

\* checkConnection() after its await: response.ok, or false in the catch.
checkConnectionAfterFetch(c, ok) ==
  setIsConnected([c EXCEPT !.checks = @ - 1,
                           !.healthFailed = @ \/ ~ok], ok)

\* errorData.error || `HTTP error! status: ${response.status}`
ClientMessageOf(response) ==
  IF response = FetchRejected THEN "Failed to fetch"
  ELSE IF "error" \in DOMAIN response.body /\ response.body.error /= ""
    THEN response.body.error
    ELSE "HTTP error! status: " \o ToString(response.status)

\* fetchWalletBalance() after its awaits: the rest of the try block or the
\* catch block, and the finally block.
fetchWalletBalanceAfterFetch(c, response) ==
  LET ended == [c EXCEPT !.fetches = @ - 1, !.isLoading = FALSE]
  IN  IF response /= FetchRejected /\ response.ok
        THEN setIsConnected([ended EXCEPT !.balance = response.body,
                                          !.lastUpdated = <<clock>>,
                                          !.balanceSucceeded = TRUE], TRUE)
        ELSE setIsConnected(
               [ended EXCEPT !.error = <<"Failed to fetch wallet balance: "
                                         \o ClientMessageOf(response)>>,
                             !.balanceFailed = TRUE], FALSE)

\* The callback of setInterval: it reads the isConnected of the render that
\* set the timer.
intervalCallback(c) ==
  LET ticked == [c EXCEPT !.sinceTick = 0]
  IN  IF c.interval[1].isConnected THEN fetchWalletBalanceStart(ticked) ELSE ticked

\* The component after its first render and the effects of that render.
\* sinceTick counts the calls of fetchWalletBalance the effects have made
\* since the last timer tick; healthFailed, balanceSucceeded and balanceFailed
\* record what the two endpoints have answered so far.
InitialClient ==
  RunEffects([balance |-> Null, isLoading |-> FALSE, error |-> <<>>,
              showBalance |-> TRUE, lastUpdated |-> <<>>, isConnected |-> FALSE,
              interval |-> <<>>, checks |-> 0, fetches |-> 0,
              sinceTick |-> 0, healthFailed |-> FALSE, balanceSucceeded |-> FALSE,
              balanceFailed |-> FALSE])

\* The counters of the model stay within their bounds.
WithinClientBounds(c) ==
  /\ c.checks <= MaxPending /\ c.fetches <= MaxPending
  /\ c.sinceTick <= MaxAutoFetches

(***************************************************************************)
(* The state machine.                                                      *)
(***************************************************************************)
NotCalled == [k |-> "none", m |-> 0, e |-> 0]

NoResponse == [status |-> "none"]

InitConfig ==
  /\ SECRET_KEY \in EnvValues
  /\ API_KEY \in EnvValues

InitSignerIdle ==
  /\ clock = 0
  /\ signCall = NoCall
  /\ prevSignCall = NoCall

InitExchange ==
  /\ exchangeAccount \in {[balances |-> b] : b \in BalanceLists}
  /\ exchangePrices \in PriceTables

InitValuationIdle ==
  /\ totalRet = NotCalled
  /\ balanceData = NoResponse

InitServerIdle == requests = [r \in Requests |-> IdleRequest]

InitPage == page = InitialPage

InitClient == client = InitialClient

Init ==
  /\ InitConfig /\ InitSignerIdle /\ InitExchange /\ InitValuationIdle /\ InitServerIdle
  /\ InitPage /\ InitClient

signerVars == <<clock, signCall, prevSignCall>>

configVars == <<SECRET_KEY, API_KEY>>

valuationVars == <<exchangeAccount, exchangePrices, totalRet, balanceData>>

serverVars == <<requests>>

uiVars == <<page, client>>

\* The clock advances.
Tick ==
  /\ clock < MaxClock
  /\ clock' = clock + 1
  /\ UNCHANGED <<uiVars, configVars, signCall, prevSignCall, valuationVars, serverVars>>

\* A caller calls createSignedParams(params).
CallCreateSignedParams ==
  \E params \in ParamObjects :
    /\ signCall' = createSignedParams(params)
    /\ prevSignCall' = signCall
    /\ UNCHANGED <<uiVars, configVars, clock, valuationVars, serverVars>>

\* A caller calls sign(params).
CallSign ==
  \E params \in ParamObjects :
    /\ signCall' = sign(params)
    /\ prevSignCall' = signCall
    /\ UNCHANGED <<uiVars, configVars, clock, valuationVars, serverVars>>

\* calculateTotalBalance is called on the exchange's balances and prices.
CallCalculateTotalBalance ==
  /\ totalRet = NotCalled
  /\ totalRet' = calculateTotalBalance(exchangeAccount.balances, exchangePrices)
  /\ exchangeAccount' =
       [exchangeAccount EXCEPT !.balances =
          calculateTotalBalanceArgs(exchangeAccount.balances, exchangePrices).balances]
  /\ exchangePrices' =
       calculateTotalBalanceArgs(exchangeAccount.balances, exchangePrices).prices
  /\ UNCHANGED <<uiVars, configVars, signerVars, balanceData, serverVars>>

\* The balance handler builds its response from the exchange's answers.
RespondBalance ==
  /\ balanceData = NoResponse
  /\ balanceData' = BuildBalanceData(exchangeAccount, exchangePrices)
  /\ UNCHANGED <<uiVars, configVars, signerVars, exchangeAccount, exchangePrices, totalRet,
               serverVars>>

\* A client sends GET /api/health.
\* Request r is the next one to arrive: the requests are numbered in the order
\* of their arrival.
Arrives(r) ==
  /\ requests[r].pc = "idle"
  /\ \A q \in Requests : q < r => requests[q].pc /= "idle"

HealthRequest ==
  \E r \in Requests :
    /\ Arrives(r)
    /\ requests' = [requests EXCEPT ![r] = health(@)]
    /\ UNCHANGED <<uiVars, configVars, signerVars, valuationVars>>

\* The requests whose handler is waiting for a call to settle.
InFlight == {r \in Requests : requests[r].pc \notin {"idle", "done"}}

\* A client sends GET /api/wallet/balance.
BalanceRequest ==
  \E r \in Requests :
    /\ Arrives(r)
    /\ requests' = [requests EXCEPT ![r] = balanceStart(@)]
    /\ UNCHANGED <<uiVars, configVars, signerVars, valuationVars>>

\* The price list call of a balance request settles.
PricesSettle ==
  \E r \in Requests, outcome \in PriceOutcomes :
    /\ requests[r].pc = "getCurrentPrices"
    /\ requests' = [requests EXCEPT ![r] = balanceAfterPrices(@, outcome)]
    /\ UNCHANGED <<uiVars, configVars, signerVars, valuationVars>>

\* The account call of a balance request settles.
AccountSettle ==
  \E r \in Requests, outcome \in AccountOutcomes :
    /\ requests[r].pc = "account"
    /\ requests' = [requests EXCEPT ![r] = balanceAfterAccount(@, outcome)]
    /\ UNCHANGED <<uiVars, configVars, signerVars, valuationVars>>

\* A client sends GET /api/wallet/orders.
OrdersRequest ==
  \E r \in Requests :
    /\ Arrives(r)
    /\ requests' = [requests EXCEPT ![r] = ordersStart(@)]
    /\ UNCHANGED <<uiVars, configVars, signerVars, valuationVars>>

\* The call of an orders request settles.
OrdersSettle ==
  \E r \in Requests, outcome \in OrdersOutcomes :
    /\ requests[r].pc = "openOrders"
    /\ requests' = [requests EXCEPT ![r] = ordersAfterCall(@, outcome)]
    /\ UNCHANGED <<uiVars, configVars, signerVars, valuationVars>>

\* A client sends GET /api/wallet/fees.
FeesRequest ==
  \E r \in Requests :
    /\ Arrives(r)
    /\ requests' = [requests EXCEPT ![r] = feesStart(@)]
    /\ UNCHANGED <<uiVars, configVars, signerVars, valuationVars>>

\* The call of a fees request settles.
FeesSettle ==
  \E r \in Requests, outcome \in FeesOutcomes :
    /\ requests[r].pc = "fees"
    /\ requests' = [requests EXCEPT ![r] = feesAfterCall(@, outcome)]
    /\ UNCHANGED <<uiVars, configVars, signerVars, valuationVars>>

\* A click on refresh-balance: fetchBalance runs up to its first await.
ClickRefresh ==
  /\ Len(page.fetches) < MaxFetches
  /\ page' = fetchBalanceStart(page)
  /\ UNCHANGED <<client, configVars, signerVars, valuationVars, serverVars>>

\* The fetch of one call of fetchBalance settles.
FetchSettle == \E i \in 1..Len(page.fetches), response \in PageResponses :
    /\ page.fetches[i].pc = "fetch"
    /\ page' = fetchBalanceAfterFetch(page, i, response)
    /\ UNCHANGED <<client, configVars, signerVars, valuationVars, serverVars>>

\* The body of one call's response has been read: the call runs to its end.
JsonSettle == \E i \in 1..Len(page.fetches) :
    /\ page.fetches[i].pc = "json"
    /\ page' = fetchBalanceAfterJson(page, i)
    /\ UNCHANGED <<client, configVars, signerVars, valuationVars, serverVars>>

\* A click on toggle-balance.
ClickToggle ==
  /\ page' = toggleBalanceVisibility(page)
  /\ UNCHANGED <<client, configVars, signerVars, valuationVars, serverVars>>

\* A call of checkConnection gets its answer.
ClientCheckSettle == \E ok \in BOOLEAN :
    /\ client.checks > 0
    /\ WithinClientBounds(checkConnectionAfterFetch(client, ok))
    /\ client' = checkConnectionAfterFetch(client, ok)
    /\ UNCHANGED <<page, configVars, signerVars, valuationVars, serverVars>>

\* A call of fetchWalletBalance gets its answer.
ClientBalanceSettle == \E response \in PageResponses :
    /\ client.fetches > 0
    /\ WithinClientBounds(fetchWalletBalanceAfterFetch(client, response))
    /\ client' = fetchWalletBalanceAfterFetch(client, response)
    /\ UNCHANGED <<page, configVars, signerVars, valuationVars, serverVars>>

\* The 30-second timer fires.
ClientTimerTick ==
  /\ client.interval /= <<>>
  /\ WithinClientBounds(intervalCallback(client))
  /\ client' = intervalCallback(client)
  /\ UNCHANGED <<page, configVars, signerVars, valuationVars, serverVars>>

\* A click on the refresh button: rendered when isConnected, disabled while
\* isLoading.
ClientClickRefresh ==
  /\ client.isConnected /\ ~client.isLoading
  /\ WithinClientBounds(fetchWalletBalanceStart(client))
  /\ client' = fetchWalletBalanceStart(client)
  /\ UNCHANGED <<page, configVars, signerVars, valuationVars, serverVars>>

\* A click on the eye button: rendered when isConnected.
ClientClickEye ==
  /\ client.isConnected
  /\ client' = [client EXCEPT !.showBalance = ~client.showBalance]
  /\ UNCHANGED <<page, configVars, signerVars, valuationVars, serverVars>>

NextSigner == Tick \/ CallCreateSignedParams \/ CallSign

NextValuation == CallCalculateTotalBalance \/ RespondBalance

NextServer ==
  \/ HealthRequest
  \/ BalanceRequest \/ PricesSettle \/ AccountSettle
  \/ OrdersRequest \/ OrdersSettle
  \/ FeesRequest \/ FeesSettle

NextPage == ClickRefresh \/ FetchSettle \/ JsonSettle \/ ClickToggle

NextClient ==
  \/ ClientCheckSettle \/ ClientBalanceSettle \/ ClientTimerTick
  \/ ClientClickRefresh \/ ClientClickEye

Next == NextSigner \/ NextValuation \/ NextServer \/ NextPage \/ NextClient

Spec == Init /\ [][Next]_vars

\* The signers alone: no exchange data.
InitSigner ==
  /\ InitConfig /\ InitSignerIdle /\ InitValuationIdle /\ InitServerIdle
  /\ exchangeAccount = NoAccount /\ exchangePrices = NoPrices
  /\ InitPage /\ InitClient

SpecSigner == InitSigner /\ [][NextSigner]_vars

\* The valuation alone: credentials set, no signer called.
InitValuation ==
  /\ SECRET_KEY = JsString(<<"k">>) /\ API_KEY = JsString(<<"k">>)
  /\ InitSignerIdle /\ InitExchange /\ InitValuationIdle /\ InitServerIdle
  /\ InitPage /\ InitClient

SpecValuation == InitValuation /\ [][NextValuation]_vars

\* The HTTP layer alone: requests arrive and the exchange answers.  The clock
\* stands still here: the handlers read it only to stamp the parameters they
\* sign, and SpecSigner is where it advances.
InitServer ==
  /\ InitConfig /\ InitSignerIdle /\ InitValuationIdle /\ InitServerIdle
  /\ exchangeAccount = NoAccount /\ exchangePrices = NoPrices
  /\ InitPage /\ InitClient

SpecServer == InitServer /\ [][NextServer]_vars

\* GET /api/wallet/balance alone, with a network that settles every call it
\* was given, by an answer or by an error: a promise of axios.get does not
\* stay pending.
NextBalance == BalanceRequest \/ PricesSettle \/ AccountSettle

SpecBalanceLive ==
  /\ InitServer /\ [][NextBalance]_vars
  /\ WF_vars(PricesSettle) /\ WF_vars(AccountSettle)

\* The dashboard alone, in one browser: clicks, and the answers of
\* GET /api/wallet/balance.
InitDashboard ==
  /\ SECRET_KEY = JsString(<<"k">>) /\ API_KEY = JsString(<<"k">>)
  /\ InitSignerIdle /\ InitValuationIdle /\ InitServerIdle
  /\ exchangeAccount = NoAccount /\ exchangePrices = NoPrices
  /\ InitPage /\ InitClient

SpecDashboard == InitDashboard /\ [][NextPage]_vars

\* The React client alone, in one browser: the answers of GET /api/health and
\* GET /api/wallet/balance, the timer and the clicks.
InitReactClient ==
  /\ SECRET_KEY = JsString(<<"k">>) /\ API_KEY = JsString(<<"k">>)
  /\ InitSignerIdle /\ InitValuationIdle /\ InitServerIdle
  /\ exchangeAccount = NoAccount /\ exchangePrices = NoPrices
  /\ InitPage /\ InitClient

SpecClient == InitReactClient /\ [][NextClient]_vars

(***************************************************************************)
(* The valuation calculator's claims, under SpecValuation.                 *)
(***************************************************************************)
Called == totalRet /= NotCalled

Balances == exchangeAccount.balances

AmountOf(balance) == NumAdd(parseFloat(balance.free), parseFloat(balance.locked))

RemoveAt(seq, i) == SubSeq(seq, 1, i - 1) \o SubSeq(seq, i + 1, Len(seq))

\* What the valuation rule gives one balance.
Contribution(balance, prices) ==
  IF ~NumGt(AmountOf(balance), Zero) THEN Zero
  ELSE IF balance.asset = "USDT" THEN AmountOf(balance)
  ELSE IF balance.asset = "BUSD" THEN AmountOf(balance)
  ELSE IF (balance.asset \o "USDT") \in DOMAIN prices
    THEN NumMul(AmountOf(balance), parseFloat(prices[balance.asset \o "USDT"]))
  ELSE Zero

RECURSIVE SumContributions(_, _)
SumContributions(balances, prices) ==
  IF balances = <<>> THEN Zero
  ELSE NumAdd(Contribution(Head(balances), prices),
              SumContributions(Tail(balances), prices))

\* C1: calculateTotalBalance returns the sum, over the balances, of what the
\* rule gives each: the amount for USDT and for BUSD, amount * price for an
\* asset with a price entry, 0 for one without and for an amount that is not
\* positive.
C1_TotalIsSumOfContributions ==
  Called => totalRet = SumContributions(Balances, exchangePrices)

\* C1's case: a priced asset, a pegged asset and the quote currency are valued.
C1_Witness ==
  /\ Called
  /\ \E i, j \in 1..Len(Balances) :
       /\ Balances[i].asset = "BTC" /\ NumGt(AmountOf(Balances[i]), Zero)
       /\ IsTruthy(exchangePrices, "BTCUSDT")
       /\ NumGt(parseFloat(exchangePrices["BTCUSDT"]), Zero)
       /\ Balances[j].asset \in {"USDT", "BUSD"} /\ NumGt(AmountOf(Balances[j]), Zero)

\* C2: a single USDT balance valued against an empty price table is worth
\* free + locked.
C2_QuoteCurrencyNeedsNoPrice ==
  (/\ Called
   /\ Len(Balances) = 1
   /\ Balances[1].asset = "USDT"
   /\ DOMAIN exchangePrices = {})
  => totalRet = NumAdd(parseFloat(Balances[1].free), parseFloat(Balances[1].locked))

\* C2's case: a single USDT balance with free and locked both positive, no price.
C2_Witness ==
  /\ Called
  /\ Len(Balances) = 1
  /\ Balances[1].asset = "USDT"
  /\ DOMAIN exchangePrices = {}
  /\ NumGt(parseFloat(Balances[1].free), Zero)
  /\ NumGt(parseFloat(Balances[1].locked), Zero)

Unpriced(balance, prices) ==
  /\ balance.asset \notin {"USDT", "BUSD"}
  /\ (balance.asset \o "USDT") \notin DOMAIN prices

\* C3: a balance that is neither USDT nor BUSD and has no price entry adds
\* exactly 0: the total is the total of the list without it, and it is a
\* number (nothing is raised).
C3_UnpricedContributesZero ==
  Called =>
    /\ totalRet.k = "fin"
    /\ \A i \in 1..Len(Balances) :
         Unpriced(Balances[i], exchangePrices)
           => totalRet = calculateTotalBalance(RemoveAt(Balances, i), exchangePrices)

\* C3's case: an unpriced asset held in a positive amount beside a balance
\* that is worth something.
C3_Witness ==
  /\ Called
  /\ NumGt(totalRet, Zero)
  /\ \E i \in 1..Len(Balances) :
       /\ Unpriced(Balances[i], exchangePrices)
       /\ NumGt(AmountOf(Balances[i]), Zero)

\* C4: a BUSD balance adds free + locked to the total, whether or not the
\* table has a BUSDUSDT entry and whatever its value.
C4_PeggedAssetOneToOne ==
  Called =>
    \A i \in 1..Len(Balances) :
      Balances[i].asset = "BUSD"
        => totalRet = NumAdd(calculateTotalBalance(RemoveAt(Balances, i), exchangePrices),
                             AmountOf(Balances[i]))

\* C4's case: BUSD held while the table prices BUSDUSDT off the peg.
C4_Witness ==
  /\ Called
  /\ "BUSDUSDT" \in DOMAIN exchangePrices
  /\ parseFloat(exchangePrices["BUSDUSDT"]) /= Normalize(1, 0)
  /\ \E i \in 1..Len(Balances) :
       Balances[i].asset = "BUSD" /\ NumGt(AmountOf(Balances[i]), Zero)

(***************************************************************************)
(* The signers' claims, under SpecSigner.                                  *)
(***************************************************************************)
Signed == signCall /= NoCall

\* The keys of an object, in order.
KeysInOrder(obj) == [i \in 1..Len(obj) |-> obj[i].key]

\* The keys of the fields of a query string, in order.
RECURSIVE FieldKeysFrom(_, _)
FieldKeysFrom(qs, i) ==
  IF i > Len(qs) THEN <<>>
  ELSE IF i = 1 \/ qs[i - 1] = "&"
    THEN <<qs[i]>> \o FieldKeysFrom(qs, i + 1)
    ELSE FieldKeysFrom(qs, i + 1)

FieldKeys(qs) == FieldKeysFrom(qs, 1)


\* C5: with the secret empty or absent every signer fails with the
\* configuration error, and the check of the secret is the first thing the
\* call does (the clock is not read and no query string is built before it).
C5_SecretCheckedFirst ==
  (Signed /\ ~Truthy(SECRET_KEY)) =>
    /\ signCall.threw
    /\ signCall.error = ConfigurationError
    /\ Head(signCall.steps) = "checkSecret"

\* The input parameters without a 'signature' entry.
WithoutSignature(params) == SelectSeq(params, LAMBDA p : p.key /= "signature")

\* C6: the string createSignedParams signs holds the input parameters and the
\* timestamp in insertion order and no signature field: a 'signature' entry
\* of the input is left out.
C6_SignedStringExcludesSignature ==
  (Signed /\ signCall.fn = "createSignedParams" /\ ~signCall.threw) =>
    FieldKeys(signCall.signed)
      = KeysInOrder(SpreadWith(WithoutSignature(signCall.params),
                               "timestamp", JsNumber(signCall.now)))

\* C7: the result of createSignedParams has exactly the input's keys plus
\* 'timestamp' and 'signature', each once; every other input parameter keeps
\* its value; the input object is as it was.
C7_ResultIsInputPlusTimestampAndSignature ==
  (Signed /\ signCall.fn = "createSignedParams" /\ ~signCall.threw) =>
    /\ Keys(signCall.ret) = Keys(signCall.params) \cup {"timestamp", "signature"}
    /\ Len(signCall.ret) = Cardinality(Keys(signCall.ret))
    /\ \A i \in 1..Len(signCall.params) :
         signCall.params[i].key \notin {"timestamp", "signature"}
           => Get(signCall.ret, signCall.params[i].key) = signCall.params[i].value
    /\ signCall.paramsAfter = signCall.params

\* C7's case: a call with two parameters, one of them its own, succeeded.
C7_Witness ==
  /\ Signed /\ signCall.fn = "createSignedParams" /\ ~signCall.threw
  /\ Len(signCall.params) = 2
  /\ HasKey(signCall.params, "symbol")
  /\ Len(signCall.ret) > Len(signCall.params)

Responded == balanceData /= NoResponse

Cent == Normalize(1, 2)

HalfCent == Normalize(5, 3)

NumAbs(x) == IF NumGt(Zero, x) THEN NumNeg(x) ELSE x

\* r is x rounded to 2 fractional digits, a tie going up.
IsRounded2(r, x) ==
  /\ r.k = "fin" /\ r.e <= 2
  /\ ~NumGt(NumSub(r, x), HalfCent)
  /\ NumGt(NumSub(r, x), NumNeg(HalfCent))

\* The balances with every locked amount set to 0.
LockedZeroed(balances) ==
  [i \in 1..Len(balances) |->
     [asset |-> balances[i].asset, free |-> balances[i].free, locked |-> <<"0">>]]

ExampleAccount ==
  [balances |->
     << [asset |-> "BTC", free |-> <<"0", ".", "5">>, locked |-> <<"0", ".", "1">>],
        [asset |-> "USDT", free |-> <<"1", "0", "0">>, locked |-> <<"0">>] >>]

ExamplePrices == [sym \in {"BTCUSDT"} |-> <<"3", "0", "0", "0", "0">>]

\* C9: the response's total is calculateTotalBalance of the balances rounded
\* to 2 digits, available that of the balances with locked zeroed, inOrders
\* the rounded difference of the two unrounded values; on the example
\* (BTC 0.5 + 0.1 locked, USDT 100, BTCUSDT 30000) they are 18100, 15100 and
\* 3000 and the BTC equivalent is "0.60333333".
C9_ResponseTotals ==
  Responded =>
    LET total     == calculateTotalBalance(Balances, exchangePrices)
        available == calculateTotalBalance(LockedZeroed(Balances), exchangePrices)
    IN  /\ IsRounded2(balanceData.total, total)
        /\ IsRounded2(balanceData.available, available)
        /\ IsRounded2(balanceData.inOrders, NumSub(total, available))
        /\ (exchangeAccount = ExampleAccount /\ exchangePrices = ExamplePrices)
             => /\ balanceData.total = Normalize(18100, 0)
                /\ balanceData.available = Normalize(15100, 0)
                /\ balanceData.inOrders = Normalize(3000, 0)
                /\ "btcValue" \in DOMAIN balanceData
                /\ balanceData.btcValue
                     = <<"0", ".", "6", "0", "3", "3", "3", "3", "3", "3">>

\* C9's case: the response to the example.
C9_Witness ==
  Responded /\ exchangeAccount = ExampleAccount /\ exchangePrices = ExamplePrices

HasLocked ==
  \E i \in 1..Len(Balances) : NumGt(parseFloat(Balances[i].locked), Zero)

\* available + inOrders - total of the response.
Discrepancy ==
  NumSub(NumAdd(balanceData.available, balanceData.inOrders), balanceData.total)

\* C10: with non-negative amounts, some of them locked, the three rounded
\* fields satisfy |available + inOrders - total| <= 0.01.
C10_RoundedFieldsAddUp ==
  (Responded /\ HasLocked) => ~NumGt(NumAbs(Discrepancy), Cent)

\* C10's case: locked amounts whose rounding leaves the fields a cent apart.
C10_Witness == Responded /\ HasLocked /\ Discrepancy /= Zero

\* The balances with every free amount set to 0.
FreeZeroed(balances) ==
  [i \in 1..Len(balances) |->
     [asset |-> balances[i].asset, free |-> <<"0">>, locked |-> balances[i].locked]]

\* C11: the unrounded inOrders of the handler (totalBalance minus
\* availableBalance) is calculateTotalBalance of the same balances with
\* every free amount set to 0.
C11_InOrdersIsLockedValuation ==
  Responded =>
    lockedBalance(exchangeAccount, exchangePrices)
      = calculateTotalBalance(FreeZeroed(Balances), exchangePrices)

\* C11's case: a balance with free and locked both positive is worth
\* something in orders, and the rounded figures would not give that value.
C11_Witness ==
  /\ Responded
  /\ \E i \in 1..Len(Balances) :
       /\ NumGt(parseFloat(Balances[i].free), Zero)
       /\ NumGt(parseFloat(Balances[i].locked), Zero)
  /\ NumGt(lockedBalance(exchangeAccount, exchangePrices), Zero)
  /\ lockedBalance(exchangeAccount, exchangePrices) /= balanceData.inOrders

\* The table has a BTCUSDT price one can divide by: present and above zero.
UsableBtcPrice ==
  /\ "BTCUSDT" \in DOMAIN exchangePrices
  /\ NumGt(parseFloat(exchangePrices["BTCUSDT"]), Zero)

HasBtcValue == "btcValue" \in DOMAIN balanceData

NotANumber(str) ==
  str \in {StrNaN, StrInfinity, <<"-">> \o StrInfinity}

\* C12: btcValue is in the response exactly when the BTCUSDT price is usable
\* (present and not zero, "0" included), and it never reads Infinity or NaN.
C12_BtcValueOnlyForUsablePrice ==
  Responded =>
    /\ HasBtcValue <=> UsableBtcPrice
    /\ HasBtcValue => ~NotANumber(balanceData.btcValue)

\* The place of the "." in a string of characters (0 when it has none).
DotIndex(str) ==
  IF \E i \in 1..Len(str) : str[i] = "."
    THEN CHOOSE i \in 1..Len(str) : str[i] = "."
    ELSE 0

\* str is a decimal numeral with exactly f digits after the ".".
HasFractionDigits(str, f) ==
  /\ DotIndex(str) > 1
  /\ Len(str) = DotIndex(str) + f
  /\ \A i \in 1..Len(str) : i /= DotIndex(str) => str[i] \in Digits

\* What the BTC equivalent overstates the total by, in USDT:
\* btcValue * price - totalBalance.
BtcValueExcess ==
  NumSub(NumMul(parseFloat(balanceData.btcValue),
                parseFloat(exchangePrices["BTCUSDT"])),
         totalBalance(exchangeAccount, exchangePrices))

\* One unit of the 8th fractional digit of the BTC equivalent, in USDT.
BtcUnit == NumMul(Normalize(1, 8), parseFloat(exchangePrices["BTCUSDT"]))

Two == Normalize(2, 0)

TotalsRounded2 ==
  /\ IsRounded2(balanceData.total, totalBalance(exchangeAccount, exchangePrices))
  /\ IsRounded2(balanceData.available,
                availableBalance(exchangeAccount, exchangePrices))
  /\ IsRounded2(balanceData.inOrders,
                lockedBalance(exchangeAccount, exchangePrices))

\* C13 as stated: the BTC equivalent is total / price cut after the 8th
\* fractional digit (never above the quotient, less than one unit below it),
\* and the three totals are rounded to 2 digits.
C13_BtcValueTruncated ==
  (Responded /\ UsableBtcPrice) =>
    /\ HasFractionDigits(balanceData.btcValue, 8)
    /\ ~NumGt(BtcValueExcess, Zero)
    /\ NumGt(BtcValueExcess, NumNeg(BtcUnit))
    /\ TotalsRounded2

\* C13 amended: the BTC equivalent is total / price rounded to the nearest
\* at the 8th fractional digit (at most half a unit from the quotient, a tie
\* going up), and the three totals are rounded to 2 digits.
C13_BtcValueRounded ==
  (Responded /\ UsableBtcPrice) =>
    /\ HasFractionDigits(balanceData.btcValue, 8)
    /\ ~NumGt(NumMul(Two, BtcValueExcess), BtcUnit)
    /\ NumGt(NumMul(Two, BtcValueExcess), NumNeg(BtcUnit))
    /\ TotalsRounded2

\* C13's case: a quotient whose 9th fractional digit is 5 or more, so that
\* the written figure is above the quotient.
C13_Witness ==
  Responded /\ UsableBtcPrice /\ NumGt(BtcValueExcess, Zero)

\* The exchange's balances held in a positive amount, parsed, in order.
HeldBalances ==
  LET held == SelectSeq(Balances, LAMBDA b : NumGt(AmountOf(b), Zero))
  IN  [i \in 1..Len(held) |->
         [asset |-> held[i].asset, free |-> parseFloat(held[i].free),
          locked |-> parseFloat(held[i].locked)]]

\* The per-asset list of the response without its derived fields.
ListedBalances ==
  [i \in 1..Len(balanceData.balances) |->
     [asset |-> balanceData.balances[i].asset,
      free |-> balanceData.balances[i].free,
      locked |-> balanceData.balances[i].locked]]

UnpricedAccount ==
  [balances |-> << [asset |-> "XYZ", free |-> <<"1", "0">>, locked |-> <<"0">>] >>]

\* C14: the per-asset list is the exchange's balances with free + locked > 0,
\* in the exchange's order, whatever they are worth; XYZ held at 10 with an
\* empty price table is listed with total 10 and usdtValue 0 while the
\* response's total is 0.
C14_PerAssetListsHeldBalances ==
  Responded =>
    /\ ListedBalances = HeldBalances
    /\ (exchangeAccount = UnpricedAccount /\ DOMAIN exchangePrices = {})
         => /\ balanceData.total = Zero
            /\ balanceData.balances
                 = << [asset |-> "XYZ", free |-> Normalize(10, 0), locked |-> Zero,
                       total |-> Normalize(10, 0), usdtValue |-> Zero] >>

\* C14's case: the response to XYZ held at 10 with no price at all.
C14_Witness ==
  Responded /\ exchangeAccount = UnpricedAccount /\ DOMAIN exchangePrices = {}

\* The three-way rule of calculateTotalBalance on one listed asset.
EntryContribution(entry, prices) ==
  IF entry.asset = "USDT" THEN entry.total
  ELSE IF entry.asset = "BUSD" THEN entry.total
  ELSE IF IsTruthy(prices, entry.asset \o "USDT")
    THEN NumMul(entry.total, parseFloat(prices[entry.asset \o "USDT"]))
  ELSE Zero

\* C15: every listed asset's usdtValue is what the rule of
\* calculateTotalBalance gives its free + locked: the amount for USDT and for
\* BUSD, amount * price when priced, 0 otherwise.
C15_UsdtValueIsContribution ==
  Responded =>
    \A i \in 1..Len(balanceData.balances) :
      balanceData.balances[i].usdtValue
        = EntryContribution(balanceData.balances[i], exchangePrices)

(***************************************************************************)
(* The HTTP layer's claims, under SpecServer.                              *)
(***************************************************************************)

\* A credential is present: the variable is set and not empty.
Configured(v) == v.t = "string" /\ Len(v.s) > 0

Done(r) == requests[r].pc = "done"

\* The calls of request r that carry a signature.
SignedCalls(r) ==
  {i \in 1..Len(requests[r].calls) : HasKey(requests[r].calls[i].params, "signature")}

\* The calls of request r to url, by their place in r's calls.
CallsTo(r, url) ==
  {i \in 1..Len(requests[r].calls) : requests[r].calls[i].url = url}

\* C16: GET /api/health answers 200 whatever the credentials are, its two
\* flags say whether the key and the secret are present, and it makes no
\* outbound call.
C16_HealthNeverFails ==
  \A r \in Requests :
    requests[r].endpoint = "health" =>
      /\ Done(r)
      /\ Len(requests[r].sent) = 1
      /\ requests[r].sent[1].status = 200
      /\ requests[r].sent[1].body.apiKeyConfigured = Configured(API_KEY)
      /\ requests[r].sent[1].body.secretKeyConfigured = Configured(SECRET_KEY)
      /\ requests[r].calls = <<>>

\* C16's case: a health request answered with both credentials absent.
C16_Witness ==
  /\ API_KEY = Undefined /\ SECRET_KEY = Undefined
  /\ \E r \in Requests :
       /\ requests[r].endpoint = "health" /\ Done(r)
       /\ requests[r].sent[1].body.apiKeyConfigured = FALSE
       /\ requests[r].sent[1].body.secretKeyConfigured = FALSE

\* C17: with the API key or the secret missing, a request to the balance,
\* orders or fees endpoint makes no signed outbound call and is answered
\* with 500 and a body that carries an error.
C17_NoSignedCallWithoutCredentials ==
  (~Configured(API_KEY) \/ ~Configured(SECRET_KEY)) =>
    \A r \in Requests :
      requests[r].endpoint \in {"balance", "orders", "fees"} =>
        /\ SignedCalls(r) = {}
        /\ Done(r) => /\ Len(requests[r].sent) = 1
                      /\ requests[r].sent[1].status = 500
                      /\ "error" \in DOMAIN requests[r].sent[1].body

\* The account call of balance request r was rejected.
AccountRejected(r) ==
  /\ requests[r].endpoint = "balance" /\ Done(r)
  /\ \E i \in CallsTo(r, AccountUrl) : requests[r].calls[i].state = "rejected"

\* The error the account call of r was rejected with.
AccountError(r) ==
  requests[r].calls[CHOOSE i \in CallsTo(r, AccountUrl) : TRUE].error

StatusOf(error) ==
  IF error.response = Undefined THEN 0 ELSE error.response.status

MsgOf(error) ==
  IF error.response /= Undefined /\ HasKey(error.response.data, "msg")
    THEN Get(error.response.data, "msg") ELSE ""

\* C18: a failed account call is answered by the exchange's status first:
\* 401 gives 401 with the fixed message, 403 gives 403, both without the
\* exchange's msg; otherwise a msg gives 400 with that msg; otherwise 500.
C18_ErrorClassification ==
  \A r \in Requests :
    AccountRejected(r) =>
      LET error    == AccountError(r)
          response == requests[r].sent[Len(requests[r].sent)]
      IN  /\ StatusOf(error) = 401
               => response = [status |-> 401,
                              body |-> [error |-> "Invalid API key or signature"]]
          /\ StatusOf(error) = 403
               => /\ response.status = 403
                  /\ DOMAIN response.body = {"error"}
                  /\ response.body.error /= MsgOf(error)
          /\ (StatusOf(error) \notin {401, 403} /\ MsgOf(error) /= "")
               => response = [status |-> 400, body |-> [error |-> MsgOf(error)]]
          /\ (StatusOf(error) \notin {401, 403} /\ MsgOf(error) = "")
               => response.status = 500

\* C18's case: the exchange answered the account call 401 with a msg.
C18_Witness ==
  \E r \in Requests :
    /\ AccountRejected(r)
    /\ StatusOf(AccountError(r)) = 401
    /\ MsgOf(AccountError(r)) /= ""

\* An outbound call of request r failed without a response of the exchange.
UpstreamUnavailable(r) ==
  \E i \in 1..Len(requests[r].calls) :
    /\ requests[r].calls[i].state = "rejected"
    /\ requests[r].calls[i].error.response = Undefined

\* C19: a balance request one of whose two outbound calls failed on the
\* network is answered 500, never 200.
C19_UpstreamFailureIs500 ==
  \A r \in Requests :
    (requests[r].endpoint = "balance" /\ Done(r) /\ UpstreamUnavailable(r)) =>
      \A i \in 1..Len(requests[r].sent) : requests[r].sent[i].status = 500

\* The place of the first `step` in a request's steps (0 when it is not there).
StepIndex(req, step) ==
  IF \E i \in 1..Len(req.steps) : req.steps[i] = step
    THEN CHOOSE i \in 1..Len(req.steps) :
           req.steps[i] = step /\ \A j \in 1..(i - 1) : req.steps[j] /= step
    ELSE 0

Pending(r) ==
  {i \in 1..Len(requests[r].calls) : requests[r].calls[i].state = "pending"}

\* C20: a balance request makes at most two outbound calls, the price list
\* and then the account, each once; the account call goes out after the
\* price list has settled, at most one call is pending at a time, and the
\* valuation runs after both have settled.
C20_TwoSequentialCalls ==
  \A r \in Requests :
    requests[r].endpoint = "balance" =>
      LET req == requests[r]
      IN  /\ Len(req.calls) <= 2
          /\ Cardinality(CallsTo(r, PriceUrl)) <= 1
          /\ Cardinality(CallsTo(r, AccountUrl)) <= 1
          /\ Len(req.calls) >= 1 => req.calls[1].url = PriceUrl
          /\ Len(req.calls) = 2
               => /\ req.calls[2].url = AccountUrl
                  /\ req.calls[1].state /= "pending"
                  /\ StepIndex(req, "settled " \o PriceUrl)
                       < StepIndex(req, "get " \o AccountUrl)
          /\ Cardinality(Pending(r)) <= 1
          /\ StepIndex(req, "calculateTotalBalance") > 0
               => /\ Len(req.calls) = 2 /\ Pending(r) = {}
                  /\ StepIndex(req, "settled " \o AccountUrl)
                       < StepIndex(req, "calculateTotalBalance")

\* C20's case: a balance request that made both calls and valued the account.
C20_Witness ==
  \E r \in Requests :
    /\ requests[r].endpoint = "balance" /\ Done(r)
    /\ Len(requests[r].calls) = 2
    /\ StepIndex(requests[r], "calculateTotalBalance") > 0
    /\ requests[r].sent[1].status = 200

\* The price table and the account that balance request r itself fetched:
\* what the exchange answered to r's own two calls.
FetchedPrices(r) ==
  LET call == requests[r].calls[CHOOSE i \in CallsTo(r, PriceUrl) : TRUE]
  IN  IF call.state = "fulfilled" THEN TickerTable(call.data) ELSE NoPrices

FetchedAccount(r) ==
  requests[r].calls[CHOOSE i \in CallsTo(r, AccountUrl) : TRUE].data

Answered200(r) ==
  /\ requests[r].endpoint = "balance" /\ Done(r)
  /\ requests[r].sent[1].status = 200

\* C21: whatever other requests do at the await points, the body of a
\* balance response is the valuation of the price table and the account
\* that this request's own calls fetched.
C21_RequestsIndependent ==
  \A r \in Requests :
    Answered200(r) =>
      requests[r].sent[1].body
        = BuildBalanceData(FetchedAccount(r), FetchedPrices(r))

\* C21's case: a balance request answered while an earlier one, which has
\* fetched other prices, still waits for its account.
C21_Witness ==
  \E r, q \in Requests :
    /\ q < r /\ Answered200(r)
    /\ q \in InFlight /\ CallsTo(q, AccountUrl) /= {}
    /\ DOMAIN requests[q].prices /= DOMAIN FetchedPrices(r)

Reorderings(n) ==
  {p \in [1..n -> 1..n] : \A i, j \in 1..n : p[i] = p[j] => i = j}

Reordered(seq, p) == [i \in 1..Len(seq) |-> seq[p[i]]]

\* C23: calculateTotalBalance gives every reordering of the balance list the
\* same total, and every entry adds its own value to that of the others, an
\* entry for an asset that is listed twice included.
C23_OrderIndependent ==
  Called =>
    /\ \A p \in Reorderings(Len(Balances)) :
         calculateTotalBalance(Reordered(Balances, p), exchangePrices) = totalRet
    /\ \A i \in 1..Len(Balances) :
         totalRet = NumAdd(calculateTotalBalance(RemoveAt(Balances, i), exchangePrices),
                           calculateTotalBalance(<<Balances[i]>>, exchangePrices))

\* C23's case: one asset listed twice with different positive amounts beside
\* another asset, so that a reordering is a different list.
C23_Witness ==
  /\ Called
  /\ \E i, j \in 1..Len(Balances) :
       /\ i /= j
       /\ Balances[i].asset = Balances[j].asset
       /\ Balances[i] /= Balances[j]
       /\ NumGt(calculateTotalBalance(<<Balances[i]>>, exchangePrices), Zero)
       /\ NumGt(calculateTotalBalance(<<Balances[j]>>, exchangePrices), Zero)

(***************************************************************************)
(* The balance handler's response, under SpecBalanceLive.                   *)
(***************************************************************************)
BalanceRequests == {r \in Requests : requests[r].endpoint = "balance"}

FieldValue(qs, key) ==
  LET k    == CHOOSE i \in 1..Len(qs) : qs[i] = key /\ (i = 1 \/ qs[i - 1] = "&")
      ends == {j \in (k + 2)..Len(qs) : qs[j] = "&"}
      last == IF ends = {} THEN Len(qs)
              ELSE (CHOOSE j \in ends : \A h \in ends : j <= h) - 1
  IN  SubSeq(qs, k + 2, last)

\* How many times a call did `step`.
TimesDone(call, step) ==
  Cardinality({i \in 1..Len(call.steps) : call.steps[i] = step})

\* C26: a signer reads the clock once per call; the timestamp it returns is
\* the value it wrote into the signed string, whatever 'timestamp' the caller
\* passed, and the signature it returns is the one computed over that string,
\* whatever 'signature' the caller passed.
C26_OneClockReadFreshFields ==
  Signed =>
    /\ TimesDone(signCall, "Date.now") = 1
    /\ ~signCall.threw =>
         /\ Get(signCall.ret, "timestamp") = JsNumber(signCall.now)
         /\ FieldValue(signCall.signed, "timestamp") = IntToStr(signCall.now)
         /\ Get(signCall.ret, "signature") = Hmac(signCall.secret.s, signCall.signed)
         /\ Cardinality({i \in 1..Len(signCall.ret) :
                           signCall.ret[i].key = "timestamp"}) = 1
         /\ Cardinality({i \in 1..Len(signCall.ret) :
                           signCall.ret[i].key = "signature"}) = 1

\* C26's case: the caller passed a 'timestamp' that is not the clock's value
\* and a 'signature', and the call succeeded.
C26_Witness ==
  /\ Signed /\ ~signCall.threw
  /\ HasKey(signCall.params, "signature")
  /\ HasKey(signCall.params, "timestamp")
  /\ Get(signCall.params, "timestamp").s /= IntToStr(signCall.now)

(***************************************************************************)
(* The dashboard's claims, under SpecDashboard.                            *)
(***************************************************************************)

\* The rows of assets-list a reader of page p sees: none while assets-section
\* is hidden.
ListedRows(p) == IF "assets-section" \in p.hidden THEN <<>> ELSE p.assetsList

\* The balance texts of the page: the four figures of the card and the
\* three figures of every listed asset.
BalanceTexts ==
  {page.text[id] : id \in DOMAIN page.text}
  \cup UNION {{ListedRows(page)[i].amount, ListedRows(page)[i].value,
               ListedRows(page)[i].percent} : i \in 1..Len(ListedRows(page))}

\* The page shows what displayBalance writes for its data with showBalance
\* true.
ShowsNumbers ==
  LET shown == displayBalance([page EXCEPT !.showBalance = TRUE], page.balanceData)
  IN  page.text = shown.text /\ ListedRows(page) = ListedRows(shown)

\* C24: while balance data is loaded and the toggle has hidden the balances,
\* every balance text of the page (total, BTC equivalent, available, in
\* orders, per-asset amount, value and percentage) is the mask string; once
\* the toggle shows them again the texts are the numbers of the data.
C24_ToggleMasksEveryNumber ==
  page.balanceData /= Null =>
    /\ ~page.showBalance => \A t \in BalanceTexts : t = Mask
    /\ page.showBalance => ShowsNumbers

\* The part of C24 the page keeps: the total, available and in-orders
\* figures and every listed amount and value are masked, and showing again
\* restores the numbers.
C24_CurrencyTextsMasked ==
  page.balanceData /= Null =>
    /\ ~page.showBalance =>
         /\ \A id \in {"total-balance", "available-balance", "orders-balance"} :
              page.text[id] = Mask
         /\ \A i \in 1..Len(ListedRows(page)) :
              /\ ListedRows(page)[i].amount = Mask
              /\ ListedRows(page)[i].value = Mask
    /\ page.showBalance => ShowsNumbers

\* Balances hidden, while data with a BTC equivalent and a listed asset is
\* loaded.
C24_HiddenWithData ==
  /\ page.balanceData /= Null /\ ~page.showBalance
  /\ BtcValueTruthy(page.balanceData)
  /\ ListedRows(page) /= <<>>

\* The calls of fetchBalance that have not run to their end.
FetchesInFlight == {i \in 1..Len(page.fetches) : page.fetches[i].pc /= "done"}

\* C27: the loading indicator is shown and the balance content hidden while
\* a call of fetchBalance is in flight; once all calls have ended, the
\* balance data of the page is the one of the call started last.
C27_LoadingWhileInFlight ==
  /\ FetchesInFlight /= {} =>
       "loading-state" \notin page.hidden /\ "balance-content" \in page.hidden
  /\ (page.fetches /= <<>> /\ FetchesInFlight = {}) =>
       LET last == page.fetches[Len(page.fetches)].response
       IN  (last /= FetchRejected /\ last.ok) => page.balanceData = last.body

\* Each half of C27 on its own.
C27_IndicatorWhileInFlight ==
  FetchesInFlight /= {} =>
    "loading-state" \notin page.hidden /\ "balance-content" \in page.hidden

C27_LastStartedWins ==
  (page.fetches /= <<>> /\ FetchesInFlight = {}) =>
    LET last == page.fetches[Len(page.fetches)].response
    IN  (last /= FetchRejected /\ last.ok) => page.balanceData = last.body

\* With a single call of fetchBalance both halves hold.
C27_SingleFetch ==
  Len(page.fetches) <= 1 => C27_LoadingWhileInFlight

(***************************************************************************)
(* The React client's claim, under SpecClient.                             *)
(***************************************************************************)

\* GET /api/health has succeeded every time and GET /api/wallet/balance has
\* failed every time, so far.
HealthUpBalanceDown == ~client.healthFailed /\ ~client.balanceSucceeded

\* C28: while the health endpoint keeps succeeding and the balance endpoint
\* keeps failing, the balance fetches the effects issue between two timer
\* ticks are fewer than MaxAutoFetches.
C28_FetchesBetweenTicksBounded ==
  HealthUpBalanceDown => client.sinceTick < MaxAutoFetches

\* While both endpoints keep succeeding the effects fetch once between two
\* ticks: when the connection is established.
C28_OneFetchWhileBothUp ==
  (~client.healthFailed /\ ~client.balanceFailed) => client.sinceTick <= 1

====
